---------------------------- MODULE Spec2Model ----------------------------
(***************************************************************************)
(* State-machine model of main.py: the BlackjackGame engine, the wallet    *)
(* ledger (WalletManager), and the interactive views and commands that     *)
(* drive them (BetSelectionView, BlackjackView, CoinFlipView, givemoney,   *)
(* transfer).                                                              *)
(*                                                                         *)
(* Handlers are asyncio coroutines: the code between two awaits runs       *)
(* without interruption, so every action below is one such segment, and a  *)
(* handler suspended at an await is recorded so that other handlers may    *)
(* run before it resumes.                                                  *)
(*                                                                         *)
(* The shuffled deck is a set of cards; random.shuffle followed by pop()   *)
(* is a draw of any card still in the deck.                                *)
(***************************************************************************)
EXTENDS Integers, Sequences, FiniteSets, TLC

VARIABLES
    wallets,    \* WalletManager._wallets: the dictionary user -> balance
    game,       \* the BlackjackGame objects, by session
    menu,       \* session -> BetSelectionView of that session
    view,       \* session -> BlackjackView of that session
    coin,       \* the CoinFlipView
    ops,        \* number of commands issued so far (bounds the run)
    run,        \* the bounds of this run: sessions, handlers, bets, shuffles
    ledger,     \* bookkeeping: per session, what the handlers moved
    calls,      \* bookkeeping: per session, the values settle_payout returned
    applied,    \* bookkeeping: per user, the deltas passed to adjust_balance
    shown       \* session -> the render_state text last sent for its game

vars == <<wallets, game, menu, view, coin, ops, run, ledger, calls, applied, shown>>

-----------------------------------------------------------------------------
(* Bounds of the model. *)

\* Sessions (bet menus, each starting at most one game) of one run.
NumSessions == 2
\* Commands (blackjack, balance, givemoney, transfer, getmoney) issued in one
\* run.
MaxOps == 2
\* Handlers of one session suspended at the same time, in a run of the bot
\* with one session and in a run with NumSessions sessions.
MaxPending == 2
RacePending == 1
\* settle_payout calls recorded in the engine specification.
MaxCalls == 2
\* Cards of one deck that are drawn with every rank in play possible: in the
\* engine specification, in a run of the bot with one session, and in a run
\* of the bot with NumSessions sessions.
EngineFreeDraws == 6
BotFreeDraws == 4
RaceFreeDraws == 2
\* Ranks the explored shuffles deal from.
EngineRanks == {"A", "5", "10", "K"}
BotRanks == {"A", "K"}
\* Bets the engine is constructed with in the engine specification.
EngineBets == {25}
\* Bets selected in the bet menus.
BetsTried == {500, 1000}
RaceBets == {500}
\* The runs explored.
EngineRun ==
    [sessions |-> 1, pending |-> 0, bets |-> EngineBets,
     shuffles |-> [ranks |-> EngineRanks, fixed |-> 0, free |-> EngineFreeDraws]]
BotRun ==
    [sessions |-> 1, pending |-> MaxPending, bets |-> BetsTried,
     shuffles |-> [ranks |-> BotRanks, fixed |-> 0, free |-> BotFreeDraws]]
RaceRun ==
    [sessions |-> NumSessions, pending |-> RacePending, bets |-> RaceBets,
     shuffles |-> [ranks |-> BotRanks, fixed |-> 0, free |-> RaceFreeDraws]]
\* The highest balance a wallet file is loaded with in the menu specification.
MaxBalance == 5001
\* Amounts tried for givemoney and transfer.
Amounts == {0, 1000}

\* The run of the specification with the timeout: one session, one suspended
\* handler.
TimeoutRun ==
    [sessions |-> 1, pending |-> RacePending, bets |-> RaceBets,
     shuffles |-> [ranks |-> BotRanks, fixed |-> 0, free |-> RaceFreeDraws]]

\* The dealer's second card is the fourth card the constructor draws.
HoleDraw == 4
\* Ranks of the dealer's second card in the run that compares two sessions.
HoleRanks == {"5", "6"}
\* The run of the specification that compares two sessions: the shuffles
\* differ in the dealer's second card only.
HoleRun ==
    [sessions |-> NumSessions, pending |-> RacePending, bets |-> RaceBets,
     shuffles |-> [ranks |-> HoleRanks, fixed |-> HoleDraw - 1, free |-> HoleDraw]]

-----------------------------------------------------------------------------
(* Program constants. *)

STARTING_BALANCE == 1000
COIN_TARGET == 5
COIN_REWARD == 500
ADMIN_USER_ID == "admin"
Users == {ADMIN_USER_ID, "alice"}

Sessions == 1 .. NumSessions

ranks == <<"A", "2", "3", "4", "5", "6", "7", "8", "9", "10", "J", "Q", "K">>
suits == <<"S", "H", "D", "C">>

Range(s) == {s[i] : i \in 1 .. Len(s)}

\* int(rank) for the numeral ranks.
RankInt == [r \in Range(ranks) |->
    CASE r = "2" -> 2 [] r = "3" -> 3 [] r = "4" -> 4 [] r = "5" -> 5
      [] r = "6" -> 6 [] r = "7" -> 7 [] r = "8" -> 8 [] r = "9" -> 9
      [] r = "10" -> 10 [] OTHER -> 0]

\* A card f"{rank}{suit}" is the pair <<rank, suit>>.
_build_deck == {<<ranks[i], suits[j]>> : i \in 1 .. Len(ranks), j \in 1 .. Len(suits)}

_card_rank(card) == card[1]

Drawn(deck) == Cardinality(_build_deck) - Cardinality(deck)

HasRank(deck, i) == \E j \in 1 .. Len(suits) : <<ranks[i], suits[j]>> \in deck

\* The first card of rank ranks[i] left in the deck, in the order of suits.
FirstOfRank(deck, i) ==
    LET j == CHOOSE j \in 1 .. Len(suits) :
                 /\ <<ranks[i], suits[j]>> \in deck
                 /\ \A k \in 1 .. j - 1 : <<ranks[i], suits[k]>> \notin deck
    IN  <<ranks[i], suits[j]>>

\* The last card left in the deck, in the order of the list comprehension of
\* _build_deck.
LastCard(deck) ==
    LET i == CHOOSE i \in 1 .. Len(ranks) :
                 HasRank(deck, i) /\ \A m \in i + 1 .. Len(ranks) : ~HasRank(deck, m)
        j == CHOOSE j \in 1 .. Len(suits) :
                 /\ <<ranks[i], suits[j]>> \in deck
                 /\ \A k \in j + 1 .. Len(suits) : <<ranks[i], suits[k]>> \notin deck
    IN  <<ranks[i], suits[j]>>

\* The cards a pop() of the shuffled deck may return, in the shuffles that are
\* explored: after the first inplay.fixed cards, each card up to the
\* inplay.free-th popped from a deck is of any rank of inplay.ranks, and the
\* other cards lie as the list comprehension of _build_deck leaves them.
\* Suits are interchangeable in every rule of the game, so a rank is drawn in
\* the order of suits.
Pickable(deck, inplay) ==
    IF inplay.fixed <= Drawn(deck) /\ Drawn(deck) < inplay.free
    THEN {FirstOfRank(deck, i) :
             i \in {k \in 1 .. Len(ranks) : ranks[k] \in inplay.ranks /\ HasRank(deck, k)}}
    ELSE {LastCard(deck)}

\* _draw_card reading the top card without taking it off the deck.
_draw_card_keep(deck, inplay) ==
    LET d == IF deck = {} THEN _build_deck ELSE deck
    IN  {<<c, d>> : c \in Pickable(d, inplay)}

\* _draw_card: the outcomes <<card, deck after>>.
_draw_card(deck, inplay) ==
    LET d == IF deck = {} THEN _build_deck ELSE deck
    IN  {<<c, d \ {c}>> : c \in Pickable(d, inplay)}

_card_value(card) ==
    LET rank == card[1]
    IN  IF rank \in {"J", "Q", "K"} THEN 10
        ELSE IF rank = "A" THEN 11
        ELSE RankInt[rank]

RECURSIVE SumValues(_)
SumValues(hand) ==
    IF hand = <<>> THEN 0 ELSE _card_value(Head(hand)) + SumValues(Tail(hand))

CountAces(hand) == Cardinality({i \in 1 .. Len(hand) : _card_value(hand[i]) = 11})

\* The while loop counting every ace as 1 as soon as the total exceeds 21.
Demote_all(total, aces) ==
    IF total > 21 /\ aces > 0 THEN total - 10 * aces ELSE total

RECURSIVE Demote(_, _)
Demote(total, aces) ==
    IF total > 21 /\ aces > 0 THEN Demote(total - 10, aces - 1) ELSE total

_hand_value(hand) == Demote(SumValues(hand), CountAces(hand))

_is_blackjack(hand) == Len(hand) = 2 /\ _hand_value(hand) = 21

hand_total(g, index) == _hand_value(g.player_hands[index + 1])

dealer_total(g) == _hand_value(g.dealer_hand)


-----------------------------------------------------------------------------
(* BlackjackGame. A game object is a record of the instance attributes;     *)
(* current_hand_index counts from 0 as in the source. An operation that     *)
(* draws cards is the set of the objects it may leave behind.               *)

AnyStatus(g, P(_)) == \E i \in 1 .. Len(g.hand_statuses) : P(g.hand_statuses[i])

IsPlaying(status) == status = "playing"
NotBust(status) == status /= "bust"

CountStatus(g, S) == Cardinality({i \in 1 .. Len(g.hand_statuses) : g.hand_statuses[i] \in S})

\* A variant in which the player's natural wins against a dealer's natural.
_check_initial_blackjack_player_first(g) ==
    LET player_blackjack == _is_blackjack(g.player_hands[1])
        dealer_blackjack == _is_blackjack(g.dealer_hand)
    IN  IF player_blackjack
        THEN [g EXCEPT !.hand_statuses[1] = "blackjack",
                       !.winning_hand_count = 1,
                       !.result = "Blackjack! You win.",
                       !.finished = TRUE]
        ELSE IF dealer_blackjack
        THEN [g EXCEPT !.hand_statuses[1] = "lose",
                       !.result = "Dealer has blackjack. You lose.",
                       !.finished = TRUE]
        ELSE g

_check_initial_blackjack(g) ==
    LET player_blackjack == _is_blackjack(g.player_hands[1])
        dealer_blackjack == _is_blackjack(g.dealer_hand)
    IN  IF player_blackjack /\ dealer_blackjack
        THEN [g EXCEPT !.hand_statuses[1] = "push",
                       !.result = "Both you and the dealer have blackjack. Push.",
                       !.finished = TRUE]
        ELSE IF player_blackjack
        THEN [g EXCEPT !.hand_statuses[1] = "blackjack",
                       !.winning_hand_count = 1,
                       !.result = "Blackjack! You win.",
                       !.finished = TRUE]
        ELSE IF dealer_blackjack
        THEN [g EXCEPT !.hand_statuses[1] = "lose",
                       !.result = "Dealer has blackjack. You lose.",
                       !.finished = TRUE]
        ELSE g

\* The object __init__ leaves before _check_initial_blackjack, for the four
\* cards drawn in order and the deck left after them.
Dealt(bet, c1, c2, c3, c4, deck) ==
    [deck |-> deck,
     player_hands |-> <<(<<c1, c2>>)>>,
     dealer_hand |-> <<c3, c4>>,
     finished |-> FALSE,
     winning_hand_count |-> 0,
     result |-> "",
     current_hand_index |-> 0,
     split_used |-> FALSE,
     hand_statuses |-> <<"playing">>,
     hand_bets |-> <<bet>>,
     hand_doubled |-> <<FALSE>>,
     settled |-> FALSE]

\* BlackjackGame(bet): every object the constructor may return.
BlackjackGame(bet, inplay) ==
    UNION {UNION {UNION {
        {_check_initial_blackjack(Dealt(bet, p1[1], p2[1], p3[1], p4[1], p4[2]))
            : p4 \in _draw_card(p3[2], inplay)}
        : p3 \in _draw_card(p2[2], inplay)}
        : p2 \in _draw_card(p1[2], inplay)}
        : p1 \in _draw_card(_build_deck, inplay)}

\* can_split comparing the values of the two cards instead of their ranks.
can_split_by_value(g) ==
    IF g.finished \/ g.split_used THEN FALSE
    ELSE IF Len(g.player_hands) /= 1 THEN FALSE
    ELSE IF Len(g.player_hands[1]) /= 2 THEN FALSE
    ELSE _card_value(g.player_hands[1][1]) = _card_value(g.player_hands[1][2])

can_split(g) ==
    IF g.finished \/ g.split_used THEN FALSE
    ELSE IF Len(g.player_hands) /= 1 THEN FALSE
    ELSE IF Len(g.player_hands[1]) /= 2 THEN FALSE
    ELSE _card_rank(g.player_hands[1][1]) = _card_rank(g.player_hands[1][2])

\* split giving each of the two hands half of the original bet.
split_halved(g, inplay) ==
    IF ~can_split(g) THEN {<<FALSE, g>>}
    ELSE LET first == g.player_hands[1][1]
             second == g.player_hands[1][2]
             original_bet == g.hand_bets[1]
         IN  UNION {
               {<<TRUE, [g EXCEPT !.deck = q2[2],
                                  !.player_hands = <<(<<first, q1[1]>>), (<<second, q2[1]>>)>>,
                                  !.hand_statuses = <<"playing", "playing">>,
                                  !.hand_bets = <<original_bet \div 2, original_bet \div 2>>,
                                  !.hand_doubled = <<FALSE, FALSE>>,
                                  !.current_hand_index = 0,
                                  !.split_used = TRUE]>>
                   : q2 \in _draw_card(q1[2], inplay)}
               : q1 \in _draw_card(g.deck, inplay)}

\* split(): the outcomes <<returned value, object after>>.
split(g, inplay) ==
    IF ~can_split(g) THEN {<<FALSE, g>>}
    ELSE LET first == g.player_hands[1][1]
             second == g.player_hands[1][2]
             original_bet == g.hand_bets[1]
         IN  UNION {
               {<<TRUE, [g EXCEPT !.deck = q2[2],
                                  !.player_hands = <<(<<first, q1[1]>>), (<<second, q2[1]>>)>>,
                                  !.hand_statuses = <<"playing", "playing">>,
                                  !.hand_bets = <<original_bet, original_bet>>,
                                  !.hand_doubled = <<FALSE, FALSE>>,
                                  !.current_hand_index = 0,
                                  !.split_used = TRUE]>>
                   : q2 \in _draw_card(q1[2], inplay)}
               : q1 \in _draw_card(g.deck, inplay)}

\* can_double without the check that the hand holds two cards.
can_double_any_size(g) ==
    IF g.finished THEN FALSE
    ELSE IF g.hand_statuses[g.current_hand_index + 1] /= "playing" THEN FALSE
    ELSE ~g.hand_doubled[g.current_hand_index + 1]

can_double(g) ==
    IF g.finished THEN FALSE
    ELSE IF g.hand_statuses[g.current_hand_index + 1] /= "playing" THEN FALSE
    ELSE IF Len(g.player_hands[g.current_hand_index + 1]) /= 2 THEN FALSE
    ELSE ~g.hand_doubled[g.current_hand_index + 1]

RECURSIVE AdvanceIndex(_, _)
AdvanceIndex(statuses, idx) ==
    IF idx < Len(statuses)
    THEN IF statuses[idx + 1] = "playing" THEN idx
         ELSE AdvanceIndex(statuses, idx + 1)
    ELSE idx

\* A variant that leaves the index on the hand just played.
_advance_hand_stay(g) == g

_advance_hand(g) ==
    [g EXCEPT !.current_hand_index = AdvanceIndex(g.hand_statuses, g.current_hand_index)]

\* _dealer_play with the dealer standing on 16.
RECURSIVE _dealer_play_to16(_, _)
_dealer_play_to16(g, inplay) ==
    IF dealer_total(g) < 16
    THEN UNION {_dealer_play_to16([g EXCEPT !.deck = p[2],
                                            !.dealer_hand = Append(g.dealer_hand, p[1])], inplay)
                   : p \in _draw_card(g.deck, inplay)}
    ELSE {g}

RECURSIVE _dealer_play(_, _)
_dealer_play(g, inplay) ==
    IF dealer_total(g) < 17
    THEN UNION {_dealer_play([g EXCEPT !.deck = p[2],
                                       !.dealer_hand = Append(g.dealer_hand, p[1])], inplay)
                   : p \in _draw_card(g.deck, inplay)}
    ELSE {g}

\* Compared with a tie counted as a win.
Compared_ties_win(g, idx) ==
    LET status == g.hand_statuses[idx + 1]
        player == hand_total(g, idx)
        dealer == dealer_total(g)
    IN  IF status = "bust" THEN status
        ELSE IF player > 21 THEN "bust"
        ELSE IF dealer > 21 \/ player >= dealer THEN "win"
        ELSE "lose"

\* The status the comparison loop of _finalize_if_done gives hand idx.
Compared(g, idx) ==
    LET status == g.hand_statuses[idx + 1]
        player == hand_total(g, idx)
        dealer == dealer_total(g)
    IN  IF status = "bust" THEN status
        ELSE IF player > 21 THEN "bust"
        ELSE IF dealer > 21 \/ player > dealer THEN "win"
        ELSE IF player = dealer THEN "push"
        ELSE "lose"

\* The summary text chosen at the end of _finalize_if_done.
Summary(wins, pushes, total_hands) ==
    IF wins = total_hands THEN "You win all hands!"
    ELSE IF wins > 0 THEN "You win some hand(s)."
    ELSE IF pushes = total_hands THEN "All hands push."
    ELSE IF pushes > 0 THEN "No wins. Pushes."
    ELSE "Dealer wins."

Finish(g) ==
    LET wins == CountStatus(g, {"win", "blackjack"})
        pushes == CountStatus(g, {"push"})
    IN  [g EXCEPT !.finished = TRUE,
                  !.winning_hand_count = wins,
                  !.result = Summary(wins, pushes, Len(g.hand_statuses))]

_finalize_if_done(g, inplay) ==
    IF AnyStatus(g, IsPlaying) THEN {g}
    ELSE IF AnyStatus(g, NotBust)
    THEN {Finish([d EXCEPT !.hand_statuses =
                      [i \in 1 .. Len(d.hand_statuses) |-> Compared(d, i - 1)]])
             : d \in _dealer_play(g, inplay)}
    ELSE {Finish(g)}

double_down(g, inplay) ==
    IF ~can_double(g) THEN {g}
    ELSE LET i == g.current_hand_index + 1
         IN  UNION {
               LET drawn == [g EXCEPT !.deck = p[2],
                                      !.hand_bets[i] = g.hand_bets[i] * 2,
                                      !.hand_doubled[i] = TRUE,
                                      !.player_hands[i] = Append(g.player_hands[i], p[1])]
                   marked == IF hand_total(drawn, g.current_hand_index) > 21
                             THEN [drawn EXCEPT !.hand_statuses[i] = "bust"]
                             ELSE [drawn EXCEPT !.hand_statuses[i] = "stood"]
               IN  _finalize_if_done(_advance_hand(marked), inplay)
               : p \in _draw_card(g.deck, inplay)}

\* player_hit without the call of _finalize_if_done after a bust.
player_hit_nofinalize(g, inplay) ==
    IF g.finished THEN {g}
    ELSE LET i == g.current_hand_index + 1
         IN  {LET drawn == [g EXCEPT !.deck = p[2],
                                     !.player_hands[i] = Append(g.player_hands[i], p[1])]
              IN  IF hand_total(drawn, g.current_hand_index) > 21
                  THEN _advance_hand([drawn EXCEPT !.hand_statuses[i] = "bust"])
                  ELSE drawn
              : p \in _draw_card(g.deck, inplay)}

\* player_hit that ends the hand at 21 as well.
player_hit_bust_at_21(g, inplay) ==
    IF g.finished THEN {g}
    ELSE LET i == g.current_hand_index + 1
         IN  UNION {
               LET drawn == [g EXCEPT !.deck = p[2],
                                      !.player_hands[i] = Append(g.player_hands[i], p[1])]
               IN  IF hand_total(drawn, g.current_hand_index) >= 21
                   THEN _finalize_if_done(
                            _advance_hand([drawn EXCEPT !.hand_statuses[i] = "bust"]), inplay)
                   ELSE {drawn}
               : p \in _draw_card(g.deck, inplay)}

player_hit(g, inplay) ==
    IF g.finished THEN {g}
    ELSE LET i == g.current_hand_index + 1
         IN  UNION {
               LET drawn == [g EXCEPT !.deck = p[2],
                                      !.player_hands[i] = Append(g.player_hands[i], p[1])]
               IN  IF hand_total(drawn, g.current_hand_index) > 21
                   THEN _finalize_if_done(
                            _advance_hand([drawn EXCEPT !.hand_statuses[i] = "bust"]), inplay)
                   ELSE {drawn}
               : p \in _draw_card(g.deck, inplay)}

player_stand(g, inplay) ==
    IF g.finished THEN {g}
    ELSE _finalize_if_done(
             _advance_hand([g EXCEPT !.hand_statuses[g.current_hand_index + 1] = "stood"]),
             inplay)

\* HandPayout with a natural paid 3:2.
HandPayout_3to2(bet, status) ==
    IF status = "blackjack" THEN bet * 2 + bet \div 2
    ELSE IF status = "win" THEN bet * 2
    ELSE IF status = "push" THEN bet
    ELSE 0

\* What settle_payout adds for one hand.
HandPayout(bet, status) ==
    IF status \in {"win", "blackjack"} THEN bet * 2
    ELSE IF status = "push" THEN bet
    ELSE 0

RECURSIVE SumPayout(_, _, _)
SumPayout(bets, statuses, n) ==
    IF n = 0 THEN 0
    ELSE SumPayout(bets, statuses, n - 1) + HandPayout(bets[n], statuses[n])

\* settle_payout without the check of the settled flag.
settle_payout_unguarded(g) ==
    <<SumPayout(g.hand_bets, g.hand_statuses, Len(g.hand_statuses)),
      [g EXCEPT !.settled = TRUE]>>

\* settle_payout(): <<returned payout, object after>>.
settle_payout(g) ==
    IF g.settled THEN <<0, g>>
    ELSE <<SumPayout(g.hand_bets, g.hand_statuses, Len(g.hand_statuses)),
           [g EXCEPT !.settled = TRUE]>>

\* forfeit marking every hand lose, whatever its status.
forfeit_all(g) ==
    IF g.finished THEN g
    ELSE [g EXCEPT !.hand_statuses = [i \in 1 .. Len(g.hand_statuses) |-> "lose"],
                   !.finished = TRUE,
                   !.result = "Game timed out. Bets forfeited."]

\* forfeit that hands the bets of the hands still playing back.
forfeit_refund(g) ==
    IF g.finished THEN g
    ELSE [g EXCEPT !.hand_statuses =
                       [i \in 1 .. Len(g.hand_statuses) |->
                           IF g.hand_statuses[i] = "playing" THEN "push"
                           ELSE g.hand_statuses[i]],
                   !.finished = TRUE,
                   !.result = "Game timed out. Bets forfeited."]

forfeit(g) ==
    IF g.finished THEN g
    ELSE [g EXCEPT !.hand_statuses =
                       [i \in 1 .. Len(g.hand_statuses) |->
                           IF g.hand_statuses[i] = "playing" THEN "lose"
                           ELSE g.hand_statuses[i]],
                   !.finished = TRUE,
                   !.result = "Game timed out. Bets forfeited."]

-----------------------------------------------------------------------------
(* BlackjackGame.render_state: the text of a message, kept as its parts.     *)

suit_symbols == [S |-> "spades", H |-> "hearts", D |-> "diamonds", C |-> "clubs"]

\* _fmt_card: the rank and the symbol of the suit.
_fmt_card(card) == <<card[1], suit_symbols[card[2]]>>

\* The cards of a hand as render_state joins them.
Cards(hand) == [i \in 1 .. Len(hand) |-> _fmt_card(hand[i])]

\* str.upper on a status.
upper ==
    [playing |-> "PLAYING", stood |-> "STOOD", bust |-> "BUST", win |-> "WIN",
     lose |-> "LOSE", push |-> "PUSH", blackjack |-> "BLACKJACK"]

\* The line of hand idx (counted from 0).
hand_line(g, idx) ==
    [number |-> idx + 1,
     bet |-> g.hand_bets[idx + 1],
     doubled |-> IF g.hand_doubled[idx + 1] THEN " x2" ELSE "",
     total |-> hand_total(g, idx),
     label |-> IF g.finished THEN upper[g.hand_statuses[idx + 1]]
               ELSE IF idx = g.current_hand_index THEN "PLAYING"
               ELSE upper[g.hand_statuses[idx + 1]],
     cards |-> Cards(g.player_hands[idx + 1])]

\* A variant that shows the dealer's hand whatever reveal_dealer is.
dealer_label_open(g, reveal_dealer) ==
    <<"Dealer", <<dealer_total(g)>>, Cards(g.dealer_hand)>>

\* The line of the dealer: the whole hand and its total, or the first card
\* and "??".
dealer_label(g, reveal_dealer) ==
    IF reveal_dealer
    THEN <<"Dealer", <<dealer_total(g)>>, Cards(g.dealer_hand)>>
    ELSE <<"Dealer showing", <<>>, <<_fmt_card(g.dealer_hand[1]), <<"?", "?">> >> >>

render_state(g, reveal_dealer) ==
    [hands |-> [i \in 1 .. Len(g.player_hands) |-> hand_line(g, i - 1)],
     dealer |-> dealer_label(g, reveal_dealer),
     footer |-> IF g.finished THEN g.result
                ELSE "Hit, Stand, or Split (if available) with the buttons below."]

-----------------------------------------------------------------------------
(* WalletManager, on the dictionary w. *)

\* The dictionary d with d[key] = value set.
Put(d, key, value) ==
    [k \in DOMAIN d \cup {key} |-> IF k = key THEN value ELSE d[k]]

\* A variant that writes the starting balance over an entry that exists.
ensure_user_reset(w, user_id) == Put(w, user_id, STARTING_BALANCE)

ensure_user(w, user_id) ==
    IF user_id \notin DOMAIN w THEN Put(w, user_id, STARTING_BALANCE) ELSE w

get_balance(w, user_id) ==
    IF user_id \notin DOMAIN w THEN STARTING_BALANCE ELSE w[user_id]

\* A variant that adds delta to the starting balance, losing what the entry
\* held.
adjust_balance_lost(w, user_id, delta) ==
    Put(ensure_user(w, user_id), user_id, STARTING_BALANCE + delta)

\* adjust_balance: the dictionary after; the value returned is the new entry.
adjust_balance(w, user_id, delta) ==
    LET e == ensure_user(w, user_id)
    IN  Put(e, user_id, get_balance(e, user_id) + delta)

-----------------------------------------------------------------------------
(* The bet menu. *)

base == <<10, 25, 50, 100, 250, 500, 1000, 2500, 5000>>

Min(S) == CHOOSE x \in S : \A y \in S : x <= y

\* sorted(S), as a list.
RECURSIVE sorted(_)
sorted(S) == IF S = {} THEN <<>> ELSE <<Min(S)>> \o sorted(S \ {Min(S)})

\* _bet_options without the option of the whole balance.
_bet_options_tiers_only(balance) ==
    sorted(Range(SelectSeq(base, LAMBDA amt : amt <= balance)))

\* _bet_options: the amounts of the options, in their order.
_bet_options(balance) ==
    LET options == SelectSeq(base, LAMBDA amt : amt <= balance)
        withAllIn == IF balance \notin Range(options) THEN Append(options, balance)
                     ELSE options
    IN  sorted(Range(withAllIn))

\* BetSelect.__init__: _bet_options(balance)[:25].
BetSelectOptions(balance) ==
    LET all == _bet_options(balance)
    IN  SubSeq(all, 1, IF Len(all) < 25 THEN Len(all) ELSE 25)

-----------------------------------------------------------------------------
(* The state outside the engine before anything has run. *)

NoMenu == [state |-> "none", user_id |-> ADMIN_USER_ID, balance |-> 0]
NoView == [state |-> "none", player_id |-> ADMIN_USER_ID, pending |-> 0, refunds |-> <<>>]
NoCoin == [state |-> "none", user_id |-> ADMIN_USER_ID, streak |-> 0, finished |-> FALSE]
NoShown == [hands |-> <<>>, dealer |-> <<>>, footer |-> ""]
NoLedger == [before |-> 0, debited |-> 0, credited |-> 0, touched |-> FALSE]

Idle ==
    /\ wallets = [u \in {} |-> 0]
    /\ menu = [s \in Sessions |-> NoMenu]
    /\ view = [s \in Sessions |-> NoView]
    /\ coin = NoCoin
    /\ ops = 0
    /\ ledger = [s \in Sessions |-> NoLedger]
    /\ calls = [s \in Sessions |-> <<>>]
    /\ applied = [user_id \in Users |-> 0]
    /\ shown = [s \in Sessions |-> NoShown]

-----------------------------------------------------------------------------
(* The engine specification: one BlackjackGame object, constructed with a  *)
(* bet of EngineBets, and its public methods called in any order.          *)

outside == <<wallets, menu, view, coin, ops, run, ledger, applied, shown>>

EngineInit ==
    /\ Idle
    /\ run = EngineRun
    /\ \E bet \in EngineBets : \E g \in BlackjackGame(bet, EngineRun.shuffles) :
           game = [s \in {1} |-> g]

EngineHit ==
    /\ \E g \in player_hit(game[1], run.shuffles) : game' = [game EXCEPT ![1] = g]
    /\ UNCHANGED <<outside, calls>>

EngineStand ==
    /\ \E g \in player_stand(game[1], run.shuffles) : game' = [game EXCEPT ![1] = g]
    /\ UNCHANGED <<outside, calls>>

EngineSplit ==
    /\ \E r \in split(game[1], run.shuffles) : game' = [game EXCEPT ![1] = r[2]]
    /\ UNCHANGED <<outside, calls>>

EngineDouble ==
    /\ \E g \in double_down(game[1], run.shuffles) : game' = [game EXCEPT ![1] = g]
    /\ UNCHANGED <<outside, calls>>

EngineForfeit ==
    /\ game' = [game EXCEPT ![1] = forfeit(game[1])]
    /\ UNCHANGED <<outside, calls>>

EngineSettle ==
    /\ Len(calls[1]) < MaxCalls
    /\ LET r == settle_payout(game[1])
       IN  /\ game' = [game EXCEPT ![1] = r[2]]
           /\ calls' = [calls EXCEPT ![1] =
                  Append(@, [payout |-> r[1], finished |-> game[1].finished])]
    /\ UNCHANGED outside

EngineNext ==
    \/ EngineHit
    \/ EngineStand
    \/ EngineSplit
    \/ EngineDouble
    \/ EngineForfeit
    \/ EngineSettle

EngineSpec == EngineInit /\ [][EngineNext]_vars

-----------------------------------------------------------------------------
(* The bot: commands, bet menus, blackjack views and the coin game, with the *)
(* engine built on shuffles of run.shuffles.                                  *)

Init ==
    /\ Idle
    /\ run \in {BotRun, RaceRun}
    /\ game = [s \in {} |-> 0]

\* Session s holds a committed bet that has not been settled.
Unsettled(s) == s \in DOMAIN game /\ ~game[s].settled

\* The bookkeeping of a call adjust_balance(user_id, delta).
Applied(a, user_id, delta) == [a EXCEPT ![user_id] = @ + delta]

\* The bookkeeping after a wallet adjustment for user_id made outside session
\* self (0: outside every session).
Touch(l, user_id, self) ==
    [t \in Sessions |->
        IF t /= self /\ Unsettled(t) /\ menu[t].user_id = user_id
        THEN [l[t] EXCEPT !.touched = TRUE]
        ELSE l[t]]

\* The handler of session s sends render_state of g.
Show(s, g, reveal_dealer) == shown' = [shown EXCEPT ![s] = render_state(g, reveal_dealer)]

\* The blackjack command and slash_blackjack, up to the message with the menu.
blackjack(user_id) ==
    /\ ops < MaxOps
    /\ \E s \in Sessions :
          /\ s <= run.sessions
          /\ menu[s].state = "none"
          /\ \A t \in 1 .. s - 1 : menu[t].state /= "none"
          /\ LET w == ensure_user(wallets, user_id)
                 balance == get_balance(w, user_id)
             IN  /\ wallets' = w
                 /\ menu' = IF balance <= 0 THEN menu
                            ELSE [menu EXCEPT ![s] = [state |-> "open",
                                                      user_id |-> user_id,
                                                      balance |-> balance]]
    /\ ops' = ops + 1
    /\ UNCHANGED run
    /\ UNCHANGED <<game, view, coin, ledger, calls, applied, shown>>

\* A variant that checks the bet against the balance shown when the menu was
\* opened.
start_game_stale(s, bet) ==
    LET user_id == menu[s].user_id
        balance == get_balance(wallets, user_id)
    IN  IF bet <= 0 \/ bet > menu[s].balance
        THEN /\ menu' = [menu EXCEPT ![s].state = "closed"]
             /\ UNCHANGED <<wallets, applied, game, view, coin, ops, run, ledger, calls, shown>>
        ELSE /\ wallets' = adjust_balance(wallets, user_id, 0 - bet)
             /\ applied' = Applied(applied, user_id, 0 - bet)
             /\ \E g \in BlackjackGame(bet, run.shuffles) : game' = Put(game, s, g)
             /\ menu' = [menu EXCEPT ![s].state = "started"]
             /\ ledger' = [Touch(ledger, user_id, s) EXCEPT
                              ![s] = [before |-> balance, debited |-> bet,
                                      credited |-> 0, touched |-> FALSE]]
             /\ UNCHANGED <<view, coin, ops, run, calls, shown>>

\* A variant that rejects a bet of the whole balance.
start_game_strict(s, bet) ==
    LET user_id == menu[s].user_id
        balance == get_balance(wallets, user_id)
    IN  IF bet <= 0 \/ bet >= balance
        THEN /\ menu' = [menu EXCEPT ![s].state = "closed"]
             /\ UNCHANGED <<wallets, applied, game, view, coin, ops, run, ledger, calls, shown>>
        ELSE /\ wallets' = adjust_balance(wallets, user_id, 0 - bet)
             /\ applied' = Applied(applied, user_id, 0 - bet)
             /\ \E g \in BlackjackGame(bet, run.shuffles) : game' = Put(game, s, g)
             /\ menu' = [menu EXCEPT ![s].state = "started"]
             /\ ledger' = [Touch(ledger, user_id, s) EXCEPT
                              ![s] = [before |-> balance, debited |-> bet,
                                      credited |-> 0, touched |-> FALSE]]
             /\ UNCHANGED <<view, coin, ops, run, calls, shown>>

\* BetSelectionView.start_game up to its first await, for the menu of session s.
start_game(s, bet) ==
    LET user_id == menu[s].user_id
        balance == get_balance(wallets, user_id)
    IN  IF bet <= 0 \/ bet > balance
        THEN /\ menu' = [menu EXCEPT ![s].state = "closed"]
             /\ UNCHANGED <<wallets, applied, game, view, coin, ops, run, ledger, calls, shown>>
        ELSE /\ wallets' = adjust_balance(wallets, user_id, 0 - bet)
             /\ applied' = Applied(applied, user_id, 0 - bet)
             /\ \E g \in BlackjackGame(bet, run.shuffles) : game' = Put(game, s, g)
             /\ menu' = [menu EXCEPT ![s].state = "started"]
             /\ ledger' = [Touch(ledger, user_id, s) EXCEPT
                              ![s] = [before |-> balance, debited |-> bet,
                                      credited |-> 0, touched |-> FALSE]]
             /\ UNCHANGED <<view, coin, ops, run, calls, shown>>

\* A selection in the menu of session s: BetSelectionView.interaction_check,
\* BetSelect.callback and start_game.
select(s, caller, bet) ==
    /\ menu[s].state = "open"
    /\ bet \in run.bets
    /\ bet \in Range(BetSelectOptions(menu[s].balance))
    /\ IF caller /= menu[s].user_id
       THEN UNCHANGED vars
       ELSE start_game(s, bet)

\* What a handler does with a finished game that is not settled: the wallets
\* and the game after, and the payout credited.
Settled(s) ==
    LET r == settle_payout(game[s])
    IN  [game |-> r[2],
         payout |-> r[1],
         wallets |-> IF r[1] /= 0
                     THEN adjust_balance(wallets, menu[s].user_id, r[1])
                     ELSE wallets]

\* The changes of a settlement of session s by its own handler.
Settle(s) ==
    LET r == Settled(s)
    IN  /\ game' = [game EXCEPT ![s] = r.game]
        /\ wallets' = r.wallets
        /\ applied' = Applied(applied, menu[s].user_id, r.payout)
        /\ calls' = [calls EXCEPT ![s] =
               Append(@, [payout |-> r.payout, finished |-> game[s].finished])]
        /\ ledger' = [(IF r.payout /= 0 THEN Touch(ledger, menu[s].user_id, s) ELSE ledger)
                         EXCEPT ![s].credited = @ + r.payout]

\* start_game after its await: a game finished at construction is settled,
\* any other is given its BlackjackView.
start_game_resume(s) ==
    /\ menu[s].state = "started"
    /\ menu' = [menu EXCEPT ![s].state = "closed"]
    /\ IF game[s].finished
       THEN /\ Show(s, game[s], TRUE)
            /\ Settle(s)
            /\ UNCHANGED view
       ELSE /\ view' = [view EXCEPT ![s] = [state |-> "active",
                                            player_id |-> menu[s].user_id,
                                            pending |-> 0,
                                            refunds |-> <<>>]]
            /\ Show(s, game[s], FALSE)
            /\ UNCHANGED <<wallets, applied, game, ledger, calls>>
    /\ UNCHANGED <<coin, ops, run>>

\* BetSelectionView.on_timeout of a menu nobody used.
menu_timeout(s) ==
    /\ menu[s].state = "open"
    /\ menu' = [menu EXCEPT ![s].state = "timedout"]
    /\ UNCHANGED <<wallets, applied, game, view, coin, ops, run, ledger, calls, shown>>

\* A button of the view of session s can be pressed: the view is active and
\* fewer than run.pending of its handlers are suspended at an await.
Pressable(s) ==
    /\ view[s].state = "active"
    /\ view[s].pending + Len(view[s].refunds) < run.pending

Suspend(s) == view' = [view EXCEPT ![s].pending = @ + 1]

\* hit on a view that lets every user press.
hit_unchecked(s, caller) ==
    /\ Pressable(s)
    /\ \E g \in player_hit(game[s], run.shuffles) :
             game' = [game EXCEPT ![s] = g] /\ Show(s, g, g.finished)
    /\ Suspend(s)
    /\ UNCHANGED <<wallets, applied, menu, coin, ops, run, ledger, calls>>

\* BlackjackView.hit up to its await.
hit(s, caller) ==
    /\ Pressable(s)
    /\ IF caller /= view[s].player_id
       THEN UNCHANGED vars
       ELSE /\ \E g \in player_hit(game[s], run.shuffles) :
                     game' = [game EXCEPT ![s] = g] /\ Show(s, g, g.finished)
            /\ Suspend(s)
            /\ UNCHANGED <<wallets, applied, menu, coin, ops, run, ledger, calls>>

\* BlackjackView.stand up to its await.
stand(s, caller) ==
    /\ Pressable(s)
    /\ IF caller /= view[s].player_id
       THEN UNCHANGED vars
       ELSE /\ \E g \in player_stand(game[s], run.shuffles) :
                     game' = [game EXCEPT ![s] = g] /\ Show(s, g, g.finished)
            /\ Suspend(s)
            /\ UNCHANGED <<wallets, applied, menu, coin, ops, run, ledger, calls>>

\* A variant that doubles without debiting the wallet.
double_down_button_free(s) ==
    IF ~can_double(game[s]) THEN UNCHANGED vars
    ELSE /\ \E g \in double_down(game[s], run.shuffles) :
                  game' = [game EXCEPT ![s] = g] /\ Show(s, g, g.finished)
         /\ Suspend(s)
         /\ UNCHANGED <<wallets, applied, menu, coin, ops, run, ledger, calls>>

\* BlackjackView.double_down up to its await, for the owner of session s.
double_down_button(s) ==
    LET player_id == view[s].player_id
        bet_needed == game[s].hand_bets[game[s].current_hand_index + 1]
        balance == get_balance(wallets, player_id)
    IN  IF ~can_double(game[s]) THEN UNCHANGED vars
        ELSE IF balance < bet_needed THEN UNCHANGED vars
        ELSE /\ wallets' = adjust_balance(wallets, player_id, 0 - bet_needed)
             /\ applied' = Applied(applied, player_id, 0 - bet_needed)
             /\ \E g \in double_down(game[s], run.shuffles) :
                      game' = [game EXCEPT ![s] = g] /\ Show(s, g, g.finished)
             /\ ledger' = [Touch(ledger, player_id, s) EXCEPT ![s].debited = @ + bet_needed]
             /\ Suspend(s)
             /\ UNCHANGED <<menu, coin, ops, run, calls>>

double(s, caller) ==
    /\ Pressable(s)
    /\ IF caller /= view[s].player_id
       THEN UNCHANGED vars
       ELSE double_down_button(s)

\* BlackjackView.split_button up to its await, for the owner of session s.
\* The debit comes before game.split(); when the split fails the handler
\* awaits send_message with split_cost still to refund.
split_button(s) ==
    LET player_id == view[s].player_id
        split_cost == game[s].hand_bets[1]
        balance == get_balance(wallets, player_id)
        debited == adjust_balance(wallets, player_id, 0 - split_cost)
    IN  IF balance < split_cost THEN UNCHANGED vars
        ELSE \E r \in split(game[s], run.shuffles) :
                IF ~r[1]
                THEN /\ wallets' = debited
                     /\ applied' = Applied(applied, player_id, 0 - split_cost)
                     /\ view' = [view EXCEPT ![s].refunds = Append(@, split_cost)]
                     /\ ledger' = Touch(ledger, player_id, s)
                     /\ UNCHANGED <<game, menu, coin, ops, run, calls, shown>>
                ELSE /\ wallets' = debited
                     /\ applied' = Applied(applied, player_id, 0 - split_cost)
                     /\ game' = [game EXCEPT ![s] = r[2]]
                     /\ Show(s, r[2], FALSE)
                     /\ ledger' = [Touch(ledger, player_id, s) EXCEPT
                                      ![s].debited = @ + split_cost]
                     /\ Suspend(s)
                     /\ UNCHANGED <<menu, coin, ops, run, calls>>

\* seq without its element at index i.
Without(seq, i) == SubSeq(seq, 1, i - 1) \o SubSeq(seq, i + 1, Len(seq))

\* A variant that returns after the await without the refund.
split_refund_none(s) ==
    /\ \E i \in 1 .. Len(view[s].refunds) :
          view' = [view EXCEPT ![s].refunds = Without(@, i)]
    /\ UNCHANGED <<wallets, applied, game, menu, coin, ops, run, ledger, calls, shown>>

\* split_button after the await of a failed split: the refund.
split_refund(s) ==
    /\ \E i \in 1 .. Len(view[s].refunds) :
          /\ wallets' = adjust_balance(wallets, view[s].player_id, view[s].refunds[i])
          /\ applied' = Applied(applied, view[s].player_id, view[s].refunds[i])
          /\ view' = [view EXCEPT ![s].refunds = Without(@, i)]
    /\ ledger' = Touch(ledger, view[s].player_id, s)
    /\ UNCHANGED <<game, menu, coin, ops, run, calls, shown>>

split_press(s, caller) ==
    /\ Pressable(s)
    /\ IF caller /= view[s].player_id
       THEN UNCHANGED vars
       ELSE split_button(s)

\* A variant that settles whether or not the game is finished.
_settle_if_done_always(s) ==
    /\ view[s].pending > 0
    /\ view' = [view EXCEPT ![s].pending = @ - 1]
    /\ IF ~game[s].settled
       THEN Settle(s)
       ELSE UNCHANGED <<wallets, applied, game, ledger, calls>>
    /\ UNCHANGED <<menu, coin, ops, run, shown>>

\* A handler of session s resumes after edit_message: _settle_if_done.
_settle_if_done(s) ==
    /\ view[s].pending > 0
    /\ view' = [view EXCEPT ![s].pending = @ - 1]
    /\ IF game[s].finished /\ ~game[s].settled
       THEN Settle(s)
       ELSE UNCHANGED <<wallets, applied, game, ledger, calls>>
    /\ UNCHANGED <<menu, coin, ops, run, shown>>

\* A variant that disables the view and leaves the game as it is.
on_timeout_idle(s) ==
    /\ view[s].state = "active"
    /\ view' = [view EXCEPT ![s].state = "timedout"]
    /\ UNCHANGED <<wallets, applied, game, menu, coin, ops, run, ledger, calls, shown>>

\* BlackjackView.on_timeout; the message is set when the view is sent.
on_timeout(s) ==
    /\ view[s].state = "active"
    /\ view' = [view EXCEPT ![s].state = "timedout"]
    /\ IF ~game[s].finished
       THEN /\ game' = [game EXCEPT ![s] = forfeit(game[s])]
            /\ Show(s, forfeit(game[s]), TRUE)
       ELSE UNCHANGED <<game, shown>>
    /\ UNCHANGED <<wallets, applied, menu, coin, ops, run, ledger, calls>>

\* The balance command and slash_balance.
balance(user_id) ==
    /\ ops < MaxOps
    /\ ops' = ops + 1
    /\ UNCHANGED run
    /\ wallets' = ensure_user(wallets, user_id)
    /\ UNCHANGED <<game, menu, view, coin, ledger, calls, applied, shown>>

\* A variant that grants for every author.
givemoney_anyone(author, member, amount) ==
    /\ ops < MaxOps
    /\ ops' = ops + 1
    /\ UNCHANGED run
    /\ IF amount <= 0
       THEN UNCHANGED <<wallets, applied, ledger>>
       ELSE /\ wallets' = adjust_balance(ensure_user(wallets, member), member, amount)
            /\ applied' = Applied(applied, member, amount)
            /\ ledger' = Touch(ledger, member, 0)
    /\ UNCHANGED <<game, menu, view, coin, calls, shown>>

\* givemoney and slash_givemoney.
givemoney(author, member, amount) ==
    /\ ops < MaxOps
    /\ ops' = ops + 1
    /\ UNCHANGED run
    /\ IF author /= ADMIN_USER_ID \/ amount <= 0
       THEN UNCHANGED <<wallets, applied, ledger>>
       ELSE /\ wallets' = adjust_balance(ensure_user(wallets, member), member, amount)
            /\ applied' = Applied(applied, member, amount)
            /\ ledger' = Touch(ledger, member, 0)
    /\ UNCHANGED <<game, menu, view, coin, calls, shown>>

\* transfer and slash_transfer.
transfer(sender_id, recipient_id, amount) ==
    /\ ops < MaxOps
    /\ ops' = ops + 1
    /\ UNCHANGED run
    /\ IF amount <= 0 \/ sender_id = recipient_id
       THEN UNCHANGED <<wallets, applied, ledger>>
       ELSE LET w == ensure_user(ensure_user(wallets, sender_id), recipient_id)
            IN  IF amount > get_balance(w, sender_id)
                THEN wallets' = w /\ UNCHANGED <<ledger, applied>>
                ELSE /\ wallets' = adjust_balance(
                            adjust_balance(w, sender_id, 0 - amount), recipient_id, amount)
                     /\ applied' = Applied(Applied(applied, sender_id, 0 - amount),
                                            recipient_id, amount)
                     /\ ledger' = Touch(Touch(ledger, sender_id, 0), recipient_id, 0)
    /\ UNCHANGED <<game, menu, view, coin, calls, shown>>

\* getmoney and slash_getmoney: a CoinFlipView for user_id.
getmoney(user_id) ==
    /\ ops < MaxOps
    /\ ops' = ops + 1
    /\ UNCHANGED run
    /\ coin.state = "none"
    /\ wallets' = ensure_user(wallets, user_id)
    /\ coin' = [state |-> "active", user_id |-> user_id, streak |-> 0, finished |-> FALSE]
    /\ UNCHANGED <<game, menu, view, ledger, calls, applied, shown>>

\* A variant that takes guesses after the game has finished.
_handle_guess_again(guess, outcome) ==
    IF guess = outcome
    THEN IF coin.streak + 1 >= COIN_TARGET
         THEN /\ coin' = [coin EXCEPT !.streak = @ + 1, !.finished = TRUE]
              /\ wallets' = adjust_balance(wallets, coin.user_id, COIN_REWARD)
              /\ applied' = Applied(applied, coin.user_id, COIN_REWARD)
              /\ ledger' = Touch(ledger, coin.user_id, 0)
              /\ UNCHANGED <<game, menu, view, ops, run, calls, shown>>
         ELSE /\ coin' = [coin EXCEPT !.streak = @ + 1]
              /\ UNCHANGED <<wallets, applied, game, menu, view, ops, run, ledger, calls, shown>>
    ELSE /\ coin' = [coin EXCEPT !.streak = 0]
         /\ UNCHANGED <<wallets, applied, game, menu, view, ops, run, ledger, calls, shown>>

\* CoinFlipView._handle_guess, with the outcome of _flip.
_handle_guess(guess, outcome) ==
    IF coin.finished THEN UNCHANGED vars
    ELSE IF guess = outcome
    THEN IF coin.streak + 1 >= COIN_TARGET
         THEN /\ coin' = [coin EXCEPT !.streak = @ + 1, !.finished = TRUE]
              /\ wallets' = adjust_balance(wallets, coin.user_id, COIN_REWARD)
              /\ applied' = Applied(applied, coin.user_id, COIN_REWARD)
              /\ ledger' = Touch(ledger, coin.user_id, 0)
              /\ UNCHANGED <<game, menu, view, ops, run, calls, shown>>
         ELSE /\ coin' = [coin EXCEPT !.streak = @ + 1]
              /\ UNCHANGED <<wallets, applied, game, menu, view, ops, run, ledger, calls, shown>>
    ELSE /\ coin' = [coin EXCEPT !.streak = 0]
         /\ UNCHANGED <<wallets, applied, game, menu, view, ops, run, ledger, calls, shown>>

\* A press of Heads or Tails: CoinFlipView.interaction_check and the button.
guess_press(caller, guess, outcome) ==
    /\ coin.state = "active"
    /\ IF caller /= coin.user_id
       THEN UNCHANGED vars
       ELSE _handle_guess(guess, outcome)

\* CoinFlipView.on_timeout.
coin_timeout ==
    /\ coin.state = "active"
    /\ coin' = [coin EXCEPT !.state = "timedout"]
    /\ UNCHANGED <<wallets, applied, game, menu, view, ops, run, ledger, calls, shown>>

Next ==
    \/ \E u \in Users : blackjack(u)
    \/ \E s \in Sessions, u \in Users, bet \in BetsTried : select(s, u, bet)
    \/ \E s \in Sessions : start_game_resume(s)
    \/ \E s \in Sessions : menu_timeout(s)
    \/ \E s \in Sessions, u \in Users : hit(s, u)
    \/ \E s \in Sessions, u \in Users : stand(s, u)
    \/ \E s \in Sessions, u \in Users : double(s, u)
    \/ \E s \in Sessions, u \in Users : split_press(s, u)
    \/ \E s \in Sessions : split_refund(s)
    \/ \E s \in Sessions : _settle_if_done(s)
    \/ \E s \in Sessions : on_timeout(s)
    \/ \E u \in Users : balance(u)
    \/ \E a \in Users, m \in Users, amount \in Amounts : givemoney(a, m, amount)
    \/ \E a \in Users, m \in Users, amount \in Amounts : transfer(a, m, amount)
    \/ \E u \in Users : getmoney(u)
    \/ \E u \in Users, g \in {"heads", "tails"}, o \in {"heads", "tails"} : guess_press(u, g, o)
    \/ coin_timeout

Spec == Init /\ [][Next]_vars

-----------------------------------------------------------------------------
(* The bot with its timer: the timeout of a BlackjackView that is shown fires *)
(* in the end, whatever its handlers and the other commands do.              *)

TimeoutInit ==
    /\ Idle
    /\ run = TimeoutRun
    /\ game = [s \in {} |-> 0]

TimeoutSpec ==
    /\ TimeoutInit
    /\ [][Next]_vars
    /\ \A s \in Sessions : WF_vars(on_timeout(s))

-----------------------------------------------------------------------------
(* The bot on shuffles that differ in the dealer's second card only: the     *)
(* sessions of one run are dealt the same cards but that one.                *)

RevealInit ==
    /\ Idle
    /\ run = HoleRun
    /\ game = [s \in {} |-> 0]

RevealSpec == RevealInit /\ [][Next]_vars

-----------------------------------------------------------------------------
(* The menu specification: the bot started on a wallet file that holds one   *)
(* balance, and the blackjack command opening bet menus on it.               *)

MenuInit ==
    /\ wallets \in {[u \in {"alice"} |-> b] : b \in 1 .. MaxBalance}
    /\ menu = [s \in Sessions |-> NoMenu]
    /\ view = [s \in Sessions |-> NoView]
    /\ coin = NoCoin
    /\ ops = 0
    /\ ledger = [s \in Sessions |-> NoLedger]
    /\ calls = [s \in Sessions |-> <<>>]
    /\ applied = [user_id \in Users |-> 0]
    /\ shown = [s \in Sessions |-> NoShown]
    /\ run = BotRun
    /\ game = [s \in {} |-> 0]

MenuNext ==
    \/ \E u \in Users : blackjack(u)
    \/ \E s \in Sessions : menu_timeout(s)

MenuSpec == MenuInit /\ [][MenuNext]_vars

-----------------------------------------------------------------------------
(* Properties of the engine, checked under EngineSpec. *)

Last(seq) == seq[Len(seq)]

FinalizeResults ==
    {"You win all hands!", "You win some hand(s).", "All hands push.",
     "No wins. Pushes.", "Dealer wins."}

\* The session finished by _finalize_if_done, not by a natural at
\* construction and not by forfeit.
Finalized(g) == g.finished /\ g.result \in FinalizeResults

HandIndices(g) == 1 .. Len(g.hand_statuses)

\* C1: once settle_payout has been called, every later call returns 0 and
\* leaves the object as it is, so the values returned sum up to the first one.
C1_SettleIdempotent ==
    [][(Len(calls[1]) >= 1 /\ calls'[1] /= calls[1])
          => (game' = game /\ Last(calls'[1]).payout = 0)]_vars

C1_Witness ==
    /\ Len(calls[1]) = 2
    /\ calls[1][1].payout > 0
    /\ calls[1][2].payout = 0

\* The bets of the hands of g whose status is in S, added up.
RECURSIVE BetsOf(_, _, _)
BetsOf(g, S, n) ==
    IF n = 0 THEN 0
    ELSE BetsOf(g, S, n - 1) + (IF g.hand_statuses[n] \in S THEN g.hand_bets[n] ELSE 0)

ExpectedPayout(g) ==
    2 * BetsOf(g, {"win", "blackjack"}, Len(g.hand_statuses))
        + BetsOf(g, {"push"}, Len(g.hand_statuses))

\* C2: the first settle_payout call, made on a finished session, returns twice
\* the bets of the win and blackjack hands plus the bets of the push hands.
C2_FirstPayout ==
    (Len(calls[1]) >= 1 /\ calls[1][1].finished)
        => calls[1][1].payout = ExpectedPayout(game[1])

C2_Witness ==
    /\ Len(calls[1]) >= 1
    /\ calls[1][1].finished
    /\ Len(game[1].hand_statuses) = 2
    /\ game[1].hand_statuses[1] = "win"
    /\ game[1].hand_statuses[2] = "push"
    /\ game[1].hand_doubled[1]

C2_WitnessNatural ==
    /\ Len(calls[1]) >= 1
    /\ game[1].hand_statuses = <<"blackjack">>
    /\ calls[1][1].payout = 2 * game[1].hand_bets[1]

\* The outcome the comparison with the dealer gives hand i of g.
Outcome(g, i) ==
    IF _hand_value(g.player_hands[i]) > 21 THEN "bust"
    ELSE IF _hand_value(g.dealer_hand) > 21 THEN "win"
    ELSE IF _hand_value(g.player_hands[i]) > _hand_value(g.dealer_hand) THEN "win"
    ELSE IF _hand_value(g.player_hands[i]) = _hand_value(g.dealer_hand) THEN "push"
    ELSE "lose"

\* C7: a finalization with a hand that is not bust leaves every hand that is
\* not bust win, push or lose as its total compares with the dealer's, and
\* the hands that were bust stay bust.
C7_Finalize ==
    [][(/\ ~game[1].finished
        /\ Finalized(game'[1])
        /\ \E i \in HandIndices(game'[1]) : game'[1].hand_statuses[i] /= "bust")
          => /\ \A i \in HandIndices(game'[1]) :
                    game'[1].hand_statuses[i] = Outcome(game'[1], i)
             /\ \A i \in HandIndices(game[1]) :
                    game[1].hand_statuses[i] = "bust" => game'[1].hand_statuses[i] = "bust"]_vars

C7_Witness ==
    /\ Finalized(game[1])
    /\ game[1].hand_statuses = <<"bust", "push">>
    /\ Len(game[1].dealer_hand) > 2

C7_WitnessMixed ==
    /\ Finalized(game[1])
    /\ game[1].hand_statuses = <<"win", "lose">>

\* C8 as stated: in a finished session with a hand that is not bust the dealer
\* has at least 17, and with every hand bust the dealer holds two cards.
C8_Original ==
    game[1].finished =>
        /\ (\E i \in HandIndices(game[1]) : game[1].hand_statuses[i] /= "bust")
              => dealer_total(game[1]) >= 17
        /\ (\A i \in HandIndices(game[1]) : game[1].hand_statuses[i] = "bust")
              => Len(game[1].dealer_hand) = 2

\* C8 amended: the dealer has at least 17 in every session that finalization
\* finished with a hand that is not bust; with every hand bust the dealer
\* holds two cards.
C8_DealerDraws ==
    /\ (/\ Finalized(game[1])
        /\ \E i \in HandIndices(game[1]) : game[1].hand_statuses[i] /= "bust")
          => dealer_total(game[1]) >= 17
    /\ (/\ game[1].finished
        /\ \A i \in HandIndices(game[1]) : game[1].hand_statuses[i] = "bust")
          => Len(game[1].dealer_hand) = 2

C8_Witness ==
    /\ Finalized(game[1])
    /\ game[1].hand_statuses = <<"bust", "lose">>
    /\ Len(game[1].dealer_hand) = 3
    /\ _hand_value(SubSeq(game[1].dealer_hand, 1, 2)) < 17
    /\ dealer_total(game[1]) >= 17

C8_WitnessAllBust ==
    /\ game[1].finished
    /\ game[1].hand_statuses = <<"bust", "bust">>
    /\ dealer_total(game[1]) < 17

\* Hand i keeps its place in a step: the hands are re-created only by split.
SameHands(i) == i \in HandIndices(game[1]) /\ i \in HandIndices(game'[1])

\* C9 as stated: a status changes only from playing, and never again.
C9_Original ==
    [][\A i \in 1 .. 2 :
          (SameHands(i) /\ game'[1].hand_statuses[i] /= game[1].hand_statuses[i])
              => game[1].hand_statuses[i] = "playing"]_vars

\* C9 amended: a status changes only from playing, to one of bust, stood, win,
\* lose, push, blackjack, or from stood to win, lose or push; bust, win, lose,
\* push and blackjack never change.
C9_OneDirectional ==
    [][\A i \in 1 .. 2 :
          (SameHands(i) /\ game'[1].hand_statuses[i] /= game[1].hand_statuses[i])
              => \/ /\ game[1].hand_statuses[i] = "playing"
                    /\ game'[1].hand_statuses[i] \in
                           {"bust", "stood", "win", "lose", "push", "blackjack"}
                 \/ /\ game[1].hand_statuses[i] = "stood"
                    /\ game'[1].hand_statuses[i] \in {"win", "lose", "push"}]_vars

\* The first hand stood, the second went bust, and finalization made the
\* first one win.
C9_Witness ==
    /\ Finalized(game[1])
    /\ game[1].hand_statuses = <<"win", "bust">>

\* C10: finished is true exactly when no hand is playing, and once true it
\* stays true.
C10_Finished ==
    /\ [](game[1].finished <=> ~AnyStatus(game[1], IsPlaying))
    /\ [][game[1].finished => game'[1].finished]_vars

C10_Witness ==
    /\ game[1].finished
    /\ game[1].split_used
    /\ game[1].hand_statuses = <<"bust", "bust">>

-----------------------------------------------------------------------------
(* Properties of the bot, checked under Spec. *)

\* C3: no wallet balance is ever negative.
C3_NoNegativeBalance == \A user_id \in DOMAIN wallets : wallets[user_id] >= 0

\* Two menus of one user were open at once; the first session took the whole
\* balance, and the selection in the second menu was rejected.
C3_Witness ==
    /\ menu[1].user_id = menu[2].user_id
    /\ 1 \in DOMAIN game
    /\ menu[2].state = "closed"
    /\ menu[2].balance = STARTING_BALANCE
    /\ 2 \notin DOMAIN game
    /\ wallets[menu[1].user_id] = 0

RECURSIVE Total(_)
Total(seq) == IF seq = <<>> THEN 0 ELSE Head(seq) + Total(Tail(seq))

Owner(s) == menu[s].user_id

\* The step splits the hand of session s.
Splits(s) ==
    /\ s \in DOMAIN game
    /\ ~game[s].split_used
    /\ game'[s].split_used

\* The step doubles hand i of session s.
Doubles(s, i) ==
    /\ s \in DOMAIN game
    /\ i \in HandIndices(game[s])
    /\ Len(game'[s].hand_doubled) = Len(game[s].hand_doubled)
    /\ ~game[s].hand_doubled[i]
    /\ game'[s].hand_doubled[i]

\* C4: the hand bets of a session never add up to more than was debited for
\* it; the step that splits debits the original bet, and the step that
\* doubles a hand debits the bet the hand had before.
C4_BetsDebited ==
    /\ [](\A s \in DOMAIN game : Total(game[s].hand_bets) <= ledger[s].debited)
    /\ [][\A s \in Sessions :
            /\ Splits(s) =>
                  /\ wallets'[Owner(s)] = wallets[Owner(s)] - game[s].hand_bets[1]
                  /\ ledger'[s].debited = ledger[s].debited + game[s].hand_bets[1]
            /\ \A i \in 1 .. 2 : Doubles(s, i) =>
                  /\ wallets'[Owner(s)] = wallets[Owner(s)] - game[s].hand_bets[i]
                  /\ ledger'[s].debited = ledger[s].debited + game[s].hand_bets[i]
                  /\ game'[s].hand_bets[i] = 2 * game[s].hand_bets[i]]_vars

\* A session split and one of its hands doubled.
C4_Witness ==
    /\ 1 \in DOMAIN game
    /\ game[1].split_used
    /\ game[1].hand_doubled[1]
    /\ game[1].hand_bets[1] = 2 * game[1].hand_bets[2]
    /\ ledger[1].debited = Total(game[1].hand_bets)

\* What hand i of g adds to the balance, as C5 states it.
Net(g, i) ==
    IF g.hand_statuses[i] \in {"win", "blackjack"} THEN g.hand_bets[i]
    ELSE IF g.hand_statuses[i] \in {"lose", "bust"} THEN 0 - g.hand_bets[i]
    ELSE 0

RECURSIVE NetSum(_, _)
NetSum(g, n) == IF n = 0 THEN 0 ELSE NetSum(g, n - 1) + Net(g, n)

\* The step settles session s, with no wallet operation of its owner outside
\* the session since the bet was committed.
Settles(s) ==
    /\ Unsettled(s)
    /\ game'[s].settled
    /\ ~ledger'[s].touched

\* C5 as stated: the balance after the settlement is the balance before the
\* commit plus +bet for each win or blackjack hand, 0 for each push hand and
\* -bet for each lose or bust hand.
C5_Original ==
    [][\A s \in Sessions :
          Settles(s) => wallets'[Owner(s)] =
              ledger[s].before + NetSum(game'[s], Len(game'[s].hand_statuses))]_vars

\* C5 for the sessions whose hands all have an outcome when they are settled,
\* with no refund of a failed split still to come.
C5_NetOfOutcomes ==
    [][\A s \in Sessions :
          (/\ Settles(s)
           /\ \A t \in Sessions : view[t].refunds = <<>>
           /\ \A i \in HandIndices(game'[s]) : game'[s].hand_statuses[i] /= "stood")
              => wallets'[Owner(s)] =
                    ledger[s].before + NetSum(game'[s], Len(game'[s].hand_statuses))]_vars

\* A player-only natural settled: bet b from balance B ends at B + b.
C5_Witness ==
    /\ 1 \in DOMAIN game
    /\ game[1].settled
    /\ ~ledger[1].touched
    /\ game[1].hand_statuses = <<"blackjack">>
    /\ ledger[1].before = STARTING_BALANCE
    /\ wallets[Owner(1)] = STARTING_BALANCE + game[1].hand_bets[1]

\* A session settled after a timeout with its first hand still stood.
C5_WitnessStood ==
    /\ 1 \in DOMAIN game
    /\ game[1].settled
    /\ ~ledger[1].touched
    /\ game[1].hand_statuses = <<"stood", "lose">>

\* A natural, as C6 states it: exactly 2 cards totalling 21.
Natural(hand) == Len(hand) = 2 /\ _hand_value(hand) = 21

\* The game of session s is as its construction left it.
Constructed(s) == s \in DOMAIN game /\ menu[s].state = "started"

\* C6: construction leaves one hand: push and finished when both the player
\* and the dealer have a natural, blackjack and finished when only the player
\* has, lose and finished when only the dealer has, playing and not finished
\* when neither has.
C6_Naturals ==
    \A s \in Sessions : Constructed(s) =>
        LET g == game[s]
            player == Natural(g.player_hands[1])
            dealer == Natural(g.dealer_hand)
        IN  /\ Len(g.player_hands) = 1
            /\ Len(g.hand_statuses) = 1
            /\ (player /\ dealer) => (g.hand_statuses[1] = "push" /\ g.finished)
            /\ (player /\ ~dealer) => (g.hand_statuses[1] = "blackjack" /\ g.finished)
            /\ (~player /\ dealer) => (g.hand_statuses[1] = "lose" /\ g.finished)
            /\ (~player /\ ~dealer) => (g.hand_statuses[1] = "playing" /\ ~g.finished)

\* A construction with both naturals.
C6_Witness ==
    /\ Constructed(1)
    /\ Natural(game[1].player_hands[1])
    /\ Natural(game[1].dealer_hand)
    /\ game[1].hand_statuses = <<"push">>

-----------------------------------------------------------------------------
(* Properties of the engine operations, checked under EngineSpec. *)

\* The condition of a split, as C11 states it.
Splittable(g) ==
    /\ ~g.finished
    /\ ~g.split_used
    /\ Len(g.player_hands) = 1
    /\ Len(g.player_hands[1]) = 2
    /\ g.player_hands[1][1][1] = g.player_hands[1][2][1]

\* The step splits the hand of the engine.
EngineSplits == ~game[1].split_used /\ game'[1].split_used

\* C11: can_split is true exactly when the session is not finished, not
\* split, and its one hand holds two cards of equal rank; split() returns
\* true and splits exactly then, and otherwise returns false and leaves the
\* session as it is.
C11_CanSplit ==
    /\ [](/\ can_split(game[1]) <=> Splittable(game[1])
          /\ \A r \in split(game[1], run.shuffles) :
                /\ r[1] <=> Splittable(game[1])
                /\ r[1] => (r[2].split_used /\ Len(r[2].player_hands) = 2)
                /\ ~r[1] => r[2] = game[1])
    /\ [][EngineSplits => Splittable(game[1])]_vars

\* A 10 and a King were dealt and cannot be split.
C11_WitnessTenKing ==
    /\ ~game[1].finished
    /\ Len(game[1].player_hands) = 1
    /\ game[1].player_hands[1][1][1] = "10"
    /\ game[1].player_hands[1][2][1] = "K"
    /\ ~can_split(game[1])

\* A pair was split.
C11_Witness ==
    /\ game[1].split_used
    /\ game[1].player_hands[1][1][1] = game[1].player_hands[2][1][1]

\* C12: a split leaves two hands, the first card of each an original card and
\* the second newly drawn, both playing, both with the original bet, neither
\* doubled, the first hand current and split_used set; a session that has
\* split never splits again, and no session has more than 2 hands.
C12_Split ==
    /\ [](/\ Len(game[1].player_hands) <= 2
          /\ game[1].split_used =>
                \A r \in split(game[1], run.shuffles) : ~r[1] /\ r[2] = game[1])
    /\ [][/\ game[1].split_used => game'[1].split_used
          /\ Len(game'[1].player_hands) /= Len(game[1].player_hands) => EngineSplits
          /\ EngineSplits =>
               LET old == game[1]
                   new == game'[1]
               IN  /\ Len(new.player_hands) = 2
                   /\ Len(new.player_hands[1]) = 2
                   /\ Len(new.player_hands[2]) = 2
                   /\ new.player_hands[1][1] = old.player_hands[1][1]
                   /\ new.player_hands[2][1] = old.player_hands[1][2]
                   /\ new.player_hands[1][2] \in old.deck
                   /\ new.player_hands[2][2] \in old.deck
                   /\ new.player_hands[1][2] /= new.player_hands[2][2]
                   /\ new.deck = old.deck \ {new.player_hands[1][2], new.player_hands[2][2]}
                   /\ new.hand_statuses = <<"playing", "playing">>
                   /\ new.hand_bets = <<old.hand_bets[1], old.hand_bets[1]>>
                   /\ new.hand_doubled = <<FALSE, FALSE>>
                   /\ new.current_hand_index = 0
                   /\ new.dealer_hand = old.dealer_hand
                   /\ ~new.finished]_vars

\* A split session played to its end, still with two hands.
C12_Witness ==
    /\ game[1].split_used
    /\ game[1].finished
    /\ Len(game[1].player_hands) = 2
    /\ game[1].hand_bets[2] = game[1].hand_bets[1]

\* The step keeps the number of hands.
SameCount == Len(game'[1].player_hands) = Len(game[1].player_hands)

\* The condition of a double-down, as C13 states it.
Doublable(g) ==
    /\ ~g.finished
    /\ g.current_hand_index + 1 \in HandIndices(g)
    /\ g.hand_statuses[g.current_hand_index + 1] = "playing"
    /\ Len(g.player_hands[g.current_hand_index + 1]) = 2
    /\ ~g.hand_doubled[g.current_hand_index + 1]

\* The step doubles hand i of the engine.
EngineDoubles(i) ==
    /\ SameCount
    /\ i \in HandIndices(game[1])
    /\ ~game[1].hand_doubled[i]
    /\ game'[1].hand_doubled[i]

\* Play has moved to the first playing hand after hand i, or the session is
\* finished when no hand is playing.
Advanced(g, i) ==
    IF \E k \in HandIndices(g) : g.hand_statuses[k] = "playing"
    THEN /\ ~g.finished
         /\ g.current_hand_index + 1 > i
         /\ g.hand_statuses[g.current_hand_index + 1] = "playing"
         /\ \A k \in i .. g.current_hand_index : g.hand_statuses[k] /= "playing"
    ELSE g.finished

\* C13: a double-down happens only on the current hand of an unfinished
\* session, playing, of two cards and not doubled; it doubles the bet, adds
\* one card, leaves the hand bust above 21 and stood otherwise (or with the
\* outcome of the finalization), and moves play on or finalizes; without the
\* condition double_down changes nothing; a bet changes only by being doubled
\* once.
C13_DoubleDown ==
    /\ [](~Doublable(game[1]) => double_down(game[1], run.shuffles) = {game[1]})
    /\ [][\A i \in 1 .. 2 :
            /\ EngineDoubles(i) =>
                 LET old == game[1]
                     new == game'[1]
                 IN  /\ Doublable(old)
                     /\ old.current_hand_index + 1 = i
                     /\ new.hand_bets[i] = 2 * old.hand_bets[i]
                     /\ Len(new.player_hands[i]) = 3
                     /\ SubSeq(new.player_hands[i], 1, 2) = old.player_hands[i]
                     /\ new.player_hands[i][3] \in old.deck
                     /\ IF _hand_value(new.player_hands[i]) > 21
                        THEN new.hand_statuses[i] = "bust"
                        ELSE IF new.finished
                        THEN new.hand_statuses[i] \in {"win", "lose", "push"}
                        ELSE new.hand_statuses[i] = "stood"
                     /\ Advanced(new, i)
            /\ (SameCount /\ i \in HandIndices(game[1]) /\ ~EngineDoubles(i)) =>
                 /\ game'[1].hand_bets[i] = game[1].hand_bets[i]
                 /\ game'[1].hand_doubled[i] = game[1].hand_doubled[i]]_vars

\* The first hand of a split session was doubled and stands while the second
\* is played.
C13_Witness ==
    /\ ~game[1].finished
    /\ game[1].hand_doubled = <<TRUE, FALSE>>
    /\ game[1].hand_statuses = <<"stood", "playing">>
    /\ game[1].hand_bets[1] = 2 * game[1].hand_bets[2]
    /\ game[1].current_hand_index = 1

\* The step is a hit on hand i of the engine: the hand gets a card without
\* being doubled.
EngineHits(i) ==
    /\ SameCount
    /\ i \in HandIndices(game[1])
    /\ game'[1].player_hands[i] /= game[1].player_hands[i]
    /\ game'[1].hand_doubled[i] = game[1].hand_doubled[i]

\* C14: a hit adds one card to the current hand of an unfinished session and
\* to no other; above 21 the hand is bust and play moves on or the session
\* finalizes, otherwise the hand stays playing and current; a hand that is not
\* playing never gets a card; a hit on a finished session changes nothing.
C14_Hit ==
    /\ [](game[1].finished => player_hit(game[1], run.shuffles) = {game[1]})
    /\ [][\A i \in 1 .. 2 :
            /\ EngineHits(i) =>
                 LET old == game[1]
                     new == game'[1]
                 IN  /\ ~old.finished
                     /\ old.current_hand_index + 1 = i
                     /\ old.hand_statuses[i] = "playing"
                     /\ Len(new.player_hands[i]) = Len(old.player_hands[i]) + 1
                     /\ SubSeq(new.player_hands[i], 1, Len(old.player_hands[i]))
                            = old.player_hands[i]
                     /\ Last(new.player_hands[i]) \in old.deck
                     /\ \A k \in HandIndices(old) \ {i} :
                            new.player_hands[k] = old.player_hands[k]
                     /\ IF _hand_value(new.player_hands[i]) > 21
                        THEN new.hand_statuses[i] = "bust" /\ Advanced(new, i)
                        ELSE /\ new.hand_statuses[i] = "playing"
                             /\ new.current_hand_index = old.current_hand_index
                             /\ ~new.finished
            /\ (SameCount /\ i \in HandIndices(game[1])
                  /\ game[1].hand_statuses[i] /= "playing") =>
                 game'[1].player_hands[i] = game[1].player_hands[i]]_vars

\* The first hand of a split session went bust on a hit and the second is
\* played.
C14_Witness ==
    /\ ~game[1].finished
    /\ game[1].hand_statuses = <<"bust", "playing">>
    /\ ~game[1].hand_doubled[1]
    /\ _hand_value(game[1].player_hands[1]) > 21
    /\ game[1].current_hand_index = 1

\* A hand that was hit to exactly 21 is still playing.
C14_WitnessAt21 ==
    /\ ~game[1].finished
    /\ Len(game[1].player_hands[1]) = 3
    /\ _hand_value(game[1].player_hands[1]) = 21
    /\ game[1].hand_statuses[1] = "playing"

\* The session was finished by forfeit.
Forfeited(g) == g.finished /\ g.result = "Game timed out. Bets forfeited."

\* C15: forfeit on an unfinished session makes every playing hand lose, keeps
\* the other statuses, the bets and the hands, and sets finished; a
\* settle_payout on a forfeited session returns 0; forfeit on a finished
\* session changes nothing.
C15_Forfeit ==
    LET old == game[1]
        new == forfeit(game[1])
    IN  /\ old.finished => new = old
        /\ ~old.finished =>
              /\ new.finished
              /\ \A i \in HandIndices(old) :
                    new.hand_statuses[i] =
                        IF old.hand_statuses[i] = "playing" THEN "lose"
                        ELSE old.hand_statuses[i]
              /\ Len(new.hand_statuses) = Len(old.hand_statuses)
              /\ new.hand_bets = old.hand_bets
              /\ new.dealer_hand = old.dealer_hand
              /\ new.player_hands = old.player_hands
              /\ settle_payout(new)[1] = 0
        /\ Forfeited(old) => settle_payout(old)[1] = 0

\* A forfeited session that was settled with nothing paid.
C15_Witness ==
    /\ Forfeited(game[1])
    /\ game[1].hand_statuses = <<"bust", "lose">>
    /\ Len(calls[1]) = 1
    /\ calls[1][1].finished
    /\ calls[1][1].payout = 0

\* The value of a card with an ace counted as 1.
AceLow(card) == IF card[1] = "A" THEN 1 ELSE _card_value(card)

RECURSIVE HardTotal(_)
HardTotal(hand) == IF hand = <<>> THEN 0 ELSE AceLow(Head(hand)) + HardTotal(Tail(hand))

\* The totals of a hand, each ace counted as 11 or as 1.
Totals(hand) ==
    {HardTotal(hand) + 10 * k :
        k \in 0 .. Cardinality({i \in 1 .. Len(hand) : hand[i][1] = "A"})}

\* The highest total that does not exceed 21 when there is one, and the total
\* with every ace counted as 1 otherwise.
Best(hand) ==
    LET fitting == {t \in Totals(hand) : t <= 21}
    IN  IF fitting /= {}
        THEN CHOOSE t \in fitting : \A u \in fitting : u <= t
        ELSE HardTotal(hand)

\* The hands of the engine: the player's and the dealer's.
Hands(g) == Range(g.player_hands) \cup {g.dealer_hand}

\* C16: _hand_value of a hand is its highest total not above 21, each ace
\* counted as 11 or 1, and its total with every ace as 1 when all exceed 21.
C16_HandValue == \A hand \in Hands(game[1]) : _hand_value(hand) = Best(hand)

\* A hand of two aces or more, one of them counted as 11 and the others as 1.
C16_Witness ==
    \E hand \in Hands(game[1]) :
        /\ Cardinality({i \in 1 .. Len(hand) : hand[i][1] = "A"}) >= 2
        /\ HardTotal(hand) + 20 > 21
        /\ _hand_value(hand) = HardTotal(hand) + 10

\* A hand above 21 with every ace counted as 1.
C16_WitnessBust ==
    \E hand \in Hands(game[1]) :
        /\ \E i \in 1 .. Len(hand) : hand[i][1] = "A"
        /\ _hand_value(hand) > 21

\* The cards in the hands of g, with their number.
InHands(g) == UNION {Range(hand) : hand \in Hands(g)}

RECURSIVE Lengths(_)
Lengths(hands) == IF hands = <<>> THEN 0 ELSE Len(Head(hands)) + Lengths(Tail(hands))

\* The most cards of one deck, lowest first and aces as 1, that total at most
\* room: values from v up, with left cards of value v not yet taken.
RECURSIVE Fit(_, _, _)
Fit(v, left, room) ==
    IF v > room \/ v > 10 THEN 0
    ELSE IF left = 0 THEN Fit(v + 1, Len(suits), room)
    ELSE 1 + Fit(v, left - 1, room - v)

\* A hand gets a card only while its total is at most limit.
DrawnWithin(hand, limit) ==
    Len(hand) > 2 => _hand_value(SubSeq(hand, 1, Len(hand) - 1)) <= limit

\* C17: the deck and the hands are disjoint, hold no card twice and together
\* are the 52 cards of a fresh deck; the deck is never exhausted, since each
\* hand stops getting cards above 21 (the dealer at 17) and three such hands
\* do not hold a deck.
C17_Deck ==
    LET g == game[1]
    IN  /\ Cardinality(_build_deck) = 52
        /\ g.deck \cap InHands(g) = {}
        /\ g.deck \cup InHands(g) = _build_deck
        /\ Cardinality(InHands(g)) = Lengths(g.player_hands) + Len(g.dealer_hand)
        /\ g.deck /= {}
        /\ \A hand \in Range(g.player_hands) : DrawnWithin(hand, 21)
        /\ DrawnWithin(g.dealer_hand, 16)
        /\ 3 * (Fit(1, Len(suits), 21) + 1) < Cardinality(_build_deck)

\* Two hands of the player and a dealer who drew: 9 cards off the deck.
C17_Witness ==
    /\ Len(game[1].player_hands) = 2
    /\ Len(game[1].dealer_hand) >= 3
    /\ Cardinality(InHands(game[1])) >= 9
    /\ Cardinality(game[1].deck) = 52 - Cardinality(InHands(game[1]))

-----------------------------------------------------------------------------
(* Properties of the bet menu and of the ownership of the views, checked     *)
(* under Spec.                                                               *)

\* The step is the selection of bet by the owner of the menu of session s.
Selects(s, bet) ==
    /\ menu[s].state = "open"
    /\ menu'[s].state /= "open"
    /\ start_game(s, bet)

\* C18: a selection of bet debits the owner by bet and constructs one session
\* with that bet exactly when 0 < bet <= the balance at the selection; any
\* other selection and the timeout of the menu leave the wallets and the
\* sessions as they are; a menu is used once, so it debits at most once.
C18_BetSelection ==
    [][\A s \in Sessions :
         /\ \A bet \in BetsTried : Selects(s, bet) =>
               LET funds == get_balance(wallets, Owner(s))
               IN  IF 0 < bet /\ bet <= funds
                   THEN /\ menu'[s].state = "started"
                        /\ s \notin DOMAIN game
                        /\ DOMAIN game' = DOMAIN game \cup {s}
                        /\ \A t \in DOMAIN game : game'[t] = game[t]
                        /\ game'[s].hand_bets = <<bet>>
                        /\ DOMAIN wallets' = DOMAIN wallets
                        /\ wallets'[Owner(s)] = funds - bet
                        /\ \A u \in DOMAIN wallets \ {Owner(s)} : wallets'[u] = wallets[u]
                   ELSE /\ menu'[s].state = "closed"
                        /\ wallets' = wallets
                        /\ game' = game
         /\ (menu[s].state = "open" /\ menu'[s].state = "timedout") =>
               (wallets' = wallets /\ game' = game)
         /\ menu[s].state \notin {"none", "open"} =>
               (menu'[s].state \notin {"open", "started"} \/ menu'[s] = menu[s])
         /\ (s \notin DOMAIN game /\ s \in DOMAIN game') =>
               (menu[s].state = "open" /\ menu'[s].state = "started")
         /\ s \in DOMAIN game =>
               (s \in DOMAIN game' /\ game'[s].hand_bets[1] >= game[s].hand_bets[1])]_vars

\* The second menu was opened at 1000 and its bet accepted against the 500
\* the first session had left.
C18_Witness ==
    /\ 2 \in DOMAIN game
    /\ menu[2].balance = STARTING_BALANCE
    /\ ledger[2].before = 500
    /\ ledger[2].debited = 500
    /\ wallets[Owner(2)] = 0

\* A menu timed out unused: no session, and the wallet as it was.
C18_WitnessTimeout ==
    /\ menu[1].state = "timedout"
    /\ 1 \notin DOMAIN game
    /\ wallets[Owner(1)] = menu[1].balance

\* What an interaction of a user who is not the owner must leave alone.
owned == <<game, wallets, coin, menu, view>>

\* An interaction of user_id with the view of session s, its menu, or the
\* coin game.
Presses(s, user_id) ==
    \/ hit(s, user_id)
    \/ stand(s, user_id)
    \/ double(s, user_id)
    \/ split_press(s, user_id)

Chooses(s, user_id) == \E bet \in BetsTried : select(s, user_id, bet)

Guesses(user_id) ==
    \E g \in {"heads", "tails"}, o \in {"heads", "tails"} : guess_press(user_id, g, o)

\* C20: no press, selection or guess of a user who is not the owner of the
\* session, the menu or the coin game changes a game, a wallet or a view.
C20_OwnerOnly ==
    [][\A user_id \in Users :
         /\ \A s \in Sessions :
               /\ (view[s].state = "active" /\ user_id /= view[s].player_id
                     /\ Presses(s, user_id)) => UNCHANGED owned
               /\ (menu[s].state = "open" /\ user_id /= menu[s].user_id
                     /\ Chooses(s, user_id)) => UNCHANGED owned
         /\ (coin.state = "active" /\ user_id /= coin.user_id /\ Guesses(user_id))
               => UNCHANGED owned]_vars

\* A pair that its owner can split, hit or double on an active view, while
\* another user known to the wallet can press the same buttons.
C20_Witness ==
    /\ Pressable(1)
    /\ can_split(game[1])
    /\ view[1].player_id \in DOMAIN wallets
    /\ \E user_id \in DOMAIN wallets : user_id /= view[1].player_id

-----------------------------------------------------------------------------
(* Properties of the order of play, checked under EngineSpec. *)

\* The step is a player_hit, player_stand or double_down on a session that is
\* not finished.
Plays == ~game[1].finished /\ (EngineHit \/ EngineStand \/ EngineDouble)

\* C28: while the session is not finished current_hand_index is the index of
\* a hand, that hand is playing and no hand before it is; a hit, stand or
\* double_down keeps the cards and the bet of every other hand, and its
\* status unless the step finalizes; the step finalizes exactly when it
\* leaves no hand playing.
C28_HandsInOrder ==
    /\ [](~game[1].finished =>
            LET g == game[1]
                current == g.current_hand_index + 1
            IN  /\ current \in HandIndices(g)
                /\ g.hand_statuses[current] = "playing"
                /\ \A i \in 1 .. current - 1 : g.hand_statuses[i] /= "playing")
    /\ [][Plays =>
            LET g == game[1]
                h == game'[1]
                current == g.current_hand_index + 1
            IN  /\ Len(h.player_hands) = Len(g.player_hands)
                /\ \A i \in HandIndices(g) \ {current} :
                      /\ h.player_hands[i] = g.player_hands[i]
                      /\ h.hand_bets[i] = g.hand_bets[i]
                      /\ h.hand_doubled[i] = g.hand_doubled[i]
                      /\ ~h.finished => h.hand_statuses[i] = g.hand_statuses[i]
                /\ h.current_hand_index >= g.current_hand_index
                /\ IF \E i \in HandIndices(h) : h.hand_statuses[i] = "playing"
                   THEN ~h.finished
                   ELSE Finalized(h) /\ h.current_hand_index = Len(h.player_hands)]_vars

\* The second hand of a split is being played after the first was stood: it
\* has been hit, and the first keeps its two cards.
C28_Witness ==
    /\ ~game[1].finished
    /\ game[1].hand_statuses = <<"stood", "playing">>
    /\ game[1].current_hand_index = 1
    /\ Len(game[1].player_hands[1]) = 2
    /\ Len(game[1].player_hands[2]) = 3

\* The last playing hand of a split left play and the session finalized.
C28_WitnessFinalized ==
    /\ Finalized(game[1])
    /\ Len(game[1].player_hands) = 2
    /\ game[1].current_hand_index = 2

-----------------------------------------------------------------------------
(* Properties of the rejected requests, checked under Spec. *)

\* What the handlers of failed splits, suspended before their refund, owe
\* user_id in the sessions 1 .. n.
RECURSIVE Owed(_, _)
Owed(user_id, n) ==
    IF n = 0 THEN 0
    ELSE Owed(user_id, n - 1)
            + (IF view[n].player_id = user_id THEN Total(view[n].refunds) ELSE 0)

\* The balance of user_id once every handler of a failed split has returned.
Funds(user_id) == get_balance(wallets, user_id) + Owed(user_id, NumSessions)

\* The step is a Double Down press of the owner of session s that is illegal
\* or unaffordable.
DoubleRejected(s) ==
    /\ Pressable(s)
    /\ \/ ~can_double(game[s])
       \/ get_balance(wallets, view[s].player_id)
              < game[s].hand_bets[game[s].current_hand_index + 1]
    /\ double_down_button(s)

\* The step is a Split press of the owner of session s that is unaffordable.
SplitUnaffordable(s) ==
    /\ Pressable(s)
    /\ get_balance(wallets, view[s].player_id) < game[s].hand_bets[1]
    /\ split_button(s)

\* The step is a Split press of the owner of session s that is affordable
\* and not available.
SplitUnavailable(s) ==
    /\ Pressable(s)
    /\ get_balance(wallets, view[s].player_id) >= game[s].hand_bets[1]
    /\ ~can_split(game[s])
    /\ split_button(s)

\* The step is the return of a handler of a failed split of session s.
Refunds(s) == Len(view'[s].refunds) < Len(view[s].refunds)

\* C21: a Double Down press that is illegal or unaffordable and a Split press
\* that is unaffordable change no game, no wallet and no view; a Split press
\* that is affordable and not available changes no game, debits the bet and
\* credits it back when its handler returns, so that the balance after the
\* return is the balance before the press; the view stays active.
C21_RejectedPress ==
    [][\A s \in Sessions :
         /\ (view[s].state = "active" /\ (DoubleRejected(s) \/ SplitUnaffordable(s)))
               => UNCHANGED <<game, wallets, view>>
         /\ (view[s].state = "active" /\ SplitUnavailable(s)) =>
               /\ game' = game
               /\ view'[s].state = "active"
               /\ view'[s].refunds = Append(view[s].refunds, game[s].hand_bets[1])
               /\ wallets'[view[s].player_id]
                     = wallets[view[s].player_id] - game[s].hand_bets[1]
               /\ \A user_id \in Users : Funds(user_id)' = Funds(user_id)
         /\ Refunds(s) =>
               /\ game' = game
               /\ view'[s].state = view[s].state
               /\ Len(view[s].refunds) = Len(view'[s].refunds) + 1
               /\ DOMAIN wallets' = DOMAIN wallets
               /\ \A user_id \in Users : Funds(user_id)' = Funds(user_id)]_vars

\* A Split press failed on a hand that is no pair and its handler returned:
\* the view is active, nothing is owed, the balance is what the bet left, and
\* the hand can still be hit.
C21_Witness ==
    /\ Pressable(1)
    /\ ~game[1].finished
    /\ ~game[1].split_used
    /\ ~can_split(game[1])
    /\ view[1].refunds = <<>>
    /\ view[1].pending = 0
    /\ ledger[1].before = STARTING_BALANCE
    /\ wallets[view[1].player_id] = STARTING_BALANCE - ledger[1].debited
    /\ wallets[view[1].player_id] >= game[1].hand_bets[1]

\* The handler of a failed Split is suspended with its refund to come.
C21_WitnessWindow ==
    /\ view[1].state = "active"
    /\ view[1].refunds = <<game[1].hand_bets[1]>>
    /\ wallets[view[1].player_id] = 0

\* A Double Down the owner cannot afford: the bet took the whole balance.
C21_WitnessDouble ==
    /\ Pressable(1)
    /\ can_double(game[1])
    /\ wallets[view[1].player_id] < game[1].hand_bets[1]

\* The step is a transfer of amount from sender_id to recipient_id that is
\* rejected for insufficient funds.
TransferRejected(sender_id, recipient_id, amount) ==
    /\ amount > 0
    /\ sender_id /= recipient_id
    /\ amount > get_balance(wallets, sender_id)
    /\ transfer(sender_id, recipient_id, amount)

\* C22 as stated: a transfer rejected for insufficient funds leaves the
\* entries of the wallets and every balance as they are.
C22_Original ==
    [][\A sender_id \in Users, recipient_id \in Users, amount \in Amounts :
          TransferRejected(sender_id, recipient_id, amount) => wallets' = wallets]_vars

\* What a rejected transfer keeps: the balance get_balance reports for every
\* user, and the entries that exist; the entries it adds are the sender's
\* and the recipient's, at the starting balance.
C22_BalancesKept ==
    [][\A sender_id \in Users, recipient_id \in Users, amount \in Amounts :
          TransferRejected(sender_id, recipient_id, amount) =>
             /\ \A user_id \in Users :
                    get_balance(wallets', user_id) = get_balance(wallets, user_id)
             /\ DOMAIN wallets' = DOMAIN wallets \cup {sender_id, recipient_id}]_vars

\* C23: a givemoney of an author who is not the admin, a givemoney or a
\* transfer of an amount <= 0 and a transfer to the sender change no balance
\* and create no entry; an accepted transfer takes amount from the sender and
\* adds it to the recipient, so the two balances keep their sum, and changes
\* no other balance.
C23_Rejections ==
    [][\A author \in Users, member \in Users, amount \in Amounts :
         /\ ((author /= ADMIN_USER_ID \/ amount <= 0) /\ givemoney(author, member, amount))
               => wallets' = wallets
         /\ ((amount <= 0 \/ author = member) /\ transfer(author, member, amount))
               => wallets' = wallets
         /\ (/\ amount > 0
             /\ author /= member
             /\ amount <= get_balance(wallets, author)
             /\ transfer(author, member, amount)) =>
               /\ DOMAIN wallets' = DOMAIN wallets \cup {author, member}
               /\ wallets'[author] = get_balance(wallets, author) - amount
               /\ wallets'[member] = get_balance(wallets, member) + amount
               /\ wallets'[author] + wallets'[member]
                     = get_balance(wallets, author) + get_balance(wallets, member)
               /\ \A user_id \in DOMAIN wallets \ {author, member} :
                     wallets'[user_id] = wallets[user_id]]_vars

\* Two requests were made and rejected: every other command creates the entry
\* of its user.
C23_Witness ==
    /\ ops = 2
    /\ DOMAIN wallets = {}

\* An accepted transfer of the whole starting balance, with no bet made.
C23_WitnessAccepted ==
    /\ DOMAIN game = {}
    /\ \A s \in Sessions : menu[s].state = "none"
    /\ coin.state = "none"
    /\ \E sender_id \in DOMAIN wallets, recipient_id \in DOMAIN wallets :
          /\ wallets[sender_id] = 0
          /\ wallets[recipient_id] = 2 * STARTING_BALANCE

-----------------------------------------------------------------------------
(* Properties of the coin game and of the wallets, checked under Spec. *)

Sides == {"heads", "tails"}

\* C24: the streak is within 0 .. 5 and is 5 exactly in a finished game; a
\* correct guess adds 1 to the streak, and the one that makes it 5 finishes
\* the game and credits 500; a wrong guess makes the streak 0 and credits
\* nothing, at streak 4 as at any other; a guess in a finished game changes
\* nothing, so a game credits once at most.
C24_CoinStreak ==
    /\ [](/\ coin.streak \in 0 .. COIN_TARGET
          /\ coin.finished <=> coin.streak = COIN_TARGET)
    /\ [][\A guess \in Sides, outcome \in Sides :
            (coin.state = "active" /\ guess_press(coin.user_id, guess, outcome)) =>
                IF coin.finished THEN UNCHANGED <<coin, wallets>>
                ELSE IF guess = outcome
                THEN /\ coin'.streak = coin.streak + 1
                     /\ IF coin'.streak = COIN_TARGET
                        THEN /\ coin'.finished
                             /\ wallets' = [wallets EXCEPT ![coin.user_id] = @ + COIN_REWARD]
                        ELSE /\ ~coin'.finished
                             /\ wallets' = wallets
                ELSE /\ coin'.streak = 0
                     /\ ~coin'.finished
                     /\ wallets' = wallets]_vars
    /\ [][coin.finished =>
            (coin'.finished /\ coin'.streak = coin.streak /\ coin'.user_id = coin.user_id)]_vars
    /\ [][(coin'.streak /= coin.streak /\ wallets' /= wallets)
            => (coin.streak = COIN_TARGET - 1 /\ ~coin.finished /\ coin'.finished)]_vars

\* A game finished at streak 5 by a user who did nothing else: 1000 + 500.
C24_Witness ==
    /\ coin.finished
    /\ coin.streak = COIN_TARGET
    /\ ops = 1
    /\ wallets = [user_id \in {coin.user_id} |-> STARTING_BALANCE + COIN_REWARD]

\* A game at streak 4, where a wrong guess resets and a correct one finishes.
C24_WitnessFour ==
    /\ coin.state = "active"
    /\ coin.streak = COIN_TARGET - 1
    /\ ~coin.finished
    /\ wallets[coin.user_id] = STARTING_BALANCE

\* C25: get_balance gives the stored balance of a user with an entry and
\* 1000 for a user without; ensure_user adds the entry at 1000 for a user
\* without one, changes nothing for a user with one, and changes nothing when
\* called again; the balance command, ensure_user and then get_balance,
\* changes the wallets only by that entry.
C25_ReadOnlyBalance ==
    /\ [](\A user_id \in Users :
            LET w == ensure_user(wallets, user_id)
            IN  /\ user_id \in DOMAIN wallets =>
                      (get_balance(wallets, user_id) = wallets[user_id] /\ w = wallets)
                /\ user_id \notin DOMAIN wallets =>
                      /\ get_balance(wallets, user_id) = STARTING_BALANCE
                      /\ DOMAIN w = DOMAIN wallets \cup {user_id}
                      /\ w[user_id] = STARTING_BALANCE
                      /\ \A other \in DOMAIN wallets : w[other] = wallets[other]
                /\ ensure_user(w, user_id) = w
                /\ get_balance(w, user_id) = get_balance(wallets, user_id))
    /\ [][\A user_id \in Users : balance(user_id) =>
            /\ user_id \in DOMAIN wallets => wallets' = wallets
            /\ \A other \in Users :
                  get_balance(wallets', other) = get_balance(wallets, other)]_vars

\* A user whose stored balance is not the starting balance, and a user
\* without an entry, after both commands allowed.
C25_Witness ==
    /\ ops = MaxOps
    /\ \E user_id \in DOMAIN wallets : wallets[user_id] < STARTING_BALANCE
    /\ \E user_id \in Users : user_id \notin DOMAIN wallets

\* C27: whatever the interleaving of the handlers, the balance of a user
\* with an entry is 1000 plus the deltas passed to adjust_balance for that
\* user so far, a user without an entry has had none, and the first
\* adjustment of a user without an entry leaves 1000 plus its delta.
C27_AdjustAtomic ==
    /\ [](\A user_id \in Users :
            IF user_id \in DOMAIN wallets
            THEN wallets[user_id] = STARTING_BALANCE + applied[user_id]
            ELSE applied[user_id] = 0)
    /\ [][\A user_id \in Users :
            (user_id \notin DOMAIN wallets /\ applied'[user_id] /= applied[user_id])
               => /\ user_id \in DOMAIN wallets'
                  /\ wallets'[user_id] = STARTING_BALANCE + applied'[user_id]]_vars

\* A Double Down handler is suspended at its await while a command outside
\* the session has adjusted the balance of the same user.
C27_Witness ==
    \E s \in DOMAIN game :
        /\ view[s].state = "active"
        /\ view[s].pending > 0
        /\ game[s].hand_doubled[1]
        /\ ~game[s].settled
        /\ ledger[s].touched
        /\ wallets[Owner(s)] = STARTING_BALANCE

\* The first adjustment of a user without an entry: a grant of 1000.
C27_WitnessAbsent ==
    /\ ops = 1
    /\ \E user_id \in Users : wallets = [u \in {user_id} |-> 2 * STARTING_BALANCE]

-----------------------------------------------------------------------------
(* Properties of the finished sessions, checked under Spec. *)

\* The final outcomes of a hand, as C30 lists them.
FinalOutcomes == {"bust", "win", "lose", "push", "blackjack"}

\* The session was finished by forfeit.
TimedOut(g) == g.finished /\ g.result = "Game timed out. Bets forfeited."

\* C30 as stated: every hand of a finished session has a final outcome.
C30_Original ==
    \A s \in DOMAIN game : game[s].finished =>
        \A i \in HandIndices(game[s]) : game[s].hand_statuses[i] \in FinalOutcomes

\* What holds of the finished sessions: no hand is playing, and a hand is
\* stood only in a session that forfeit finished.
C30_FinalUnlessForfeit ==
    \A s \in DOMAIN game : game[s].finished =>
        \A i \in HandIndices(game[s]) :
            \/ game[s].hand_statuses[i] \in FinalOutcomes
            \/ game[s].hand_statuses[i] = "stood" /\ TimedOut(game[s])

\* A split session finished by the timeout after its first hand was stood.
C30_Witness ==
    /\ 1 \in DOMAIN game
    /\ view[1].state = "timedout"
    /\ TimedOut(game[1])
    /\ game[1].hand_statuses = <<"stood", "lose">>

\* The calls of settle_payout on session s that returned a payout.
Paying(s) == {k \in 1 .. Len(calls[s]) : calls[s][k].payout /= 0}

\* C29: settle_payout is called on finished sessions only and once per
\* session at most; what the session has credited is what that call
\* returned, and a step credits a session only by settling it.
C29_PayoutOnce ==
    /\ [](\A s \in Sessions :
            /\ \A k \in 1 .. Len(calls[s]) : calls[s][k].finished
            /\ Len(calls[s]) <= 1
            /\ Cardinality(Paying(s)) <= 1
            /\ ledger[s].credited = (IF calls[s] = <<>> THEN 0 ELSE calls[s][1].payout)
            /\ (s \in DOMAIN game /\ game[s].settled) <=> calls[s] /= <<>>)
    /\ [][\A s \in Sessions :
            ledger'[s].credited /= ledger[s].credited =>
               /\ Unsettled(s)
               /\ game[s].finished
               /\ game'[s].settled
               /\ wallets'[Owner(s)] = wallets[Owner(s)] + ExpectedPayout(game[s])]_vars

\* The handler that finished the session has settled it with a payout, and
\* a handler of a press made while it was suspended has still to resume.
C29_Witness ==
    /\ 1 \in DOMAIN game
    /\ game[1].settled
    /\ view[1].state = "active"
    /\ view[1].pending = 1
    /\ Len(calls[1]) = 1
    /\ calls[1][1].payout > 0

\* A session finished by the timeout and settled by a handler that was
\* suspended when the view timed out.
C29_WitnessTimeout ==
    /\ 1 \in DOMAIN game
    /\ TimedOut(game[1])
    /\ game[1].settled
    /\ calls[1] = <<[payout |-> 0, finished |-> TRUE]>>

-----------------------------------------------------------------------------
(* Properties of the timeout, checked under TimeoutSpec. *)

\* The view of session s has been shown to its user.
Presented(s) == view[s].state /= "none"

\* The step is a hit of the owner on the unfinished game of session s.
Hits(s) ==
    /\ view[s].state = "active"
    /\ ~game[s].finished
    /\ hit(s, view[s].player_id)

\* C26: a session that has been shown is finished in the end; the timeout
\* of a view forfeits a game that is not finished, with no press needed; a
\* playing hand counts at most 21 with its aces as 1, and every hit of an
\* unfinished session adds at least 1 to that count of the current hand, so
\* a hand takes at most 19 hits.
C26_EventuallyFinished ==
    /\ \A s \in Sessions : Presented(s) ~> (s \in DOMAIN game /\ game[s].finished)
    /\ [][\A s \in Sessions :
            /\ (view[s].state = "active" /\ view'[s].state = "timedout") =>
                  /\ game'[s].finished
                  /\ ~game[s].finished => TimedOut(game'[s])
                  /\ \A i \in HandIndices(game'[s]) : game'[s].hand_statuses[i] /= "playing"
            /\ Hits(s) =>
                  HardTotal(game'[s].player_hands[game[s].current_hand_index + 1])
                     > HardTotal(game[s].player_hands[game[s].current_hand_index + 1])]_vars
    /\ [](\A s \in DOMAIN game : \A i \in HandIndices(game[s]) :
            game[s].hand_statuses[i] = "playing" => HardTotal(game[s].player_hands[i]) <= 21)

\* The timeout finished a session whose hand had been hit and was playing.
C26_Witness ==
    /\ view[1].state = "timedout"
    /\ TimedOut(game[1])
    /\ game[1].hand_statuses = <<"lose">>
    /\ Len(game[1].player_hands[1]) = 3

-----------------------------------------------------------------------------
(* Properties of the bet options, checked under MenuSpec. *)

\* The fixed tiers, as C19 lists them.
Tiers == {10, 25, 50, 100, 250, 500, 1000, 2500, 5000}

\* The options a menu built on funds offers.
Offered(funds) == BetSelectOptions(funds)

\* C19: the options of a menu are the tiers that do not exceed the balance
\* and the balance itself, each once and in ascending order; each is positive
\* and at most the balance, and there are at most 25.
C19_BetOptions ==
    \A s \in Sessions : menu[s].state = "open" =>
        LET funds == menu[s].balance
            options == Offered(funds)
        IN  /\ funds > 0
            /\ options = _bet_options(funds)
            /\ Range(options) = {t \in Tiers : t <= funds} \cup {funds}
            /\ \A i \in 1 .. Len(options) - 1 : options[i] < options[i + 1]
            /\ \A i \in 1 .. Len(options) : 0 < options[i] /\ options[i] <= funds
            /\ Len(options) <= 25

\* A menu on a balance between two tiers: four tiers and the balance.
C19_Witness ==
    /\ menu[1].state = "open"
    /\ menu[1].balance = 120
    /\ Offered(120) = <<10, 25, 50, 100, 120>>

\* A menu on a balance below every tier: the balance alone.
C19_WitnessSmall ==
    /\ menu[1].state = "open"
    /\ menu[1].balance < 10
    /\ Len(Offered(menu[1].balance)) = 1

-----------------------------------------------------------------------------
(* Properties of RevealSpec: what the messages of a session disclose.        *)

\* What two sessions that differ only in the dealer's second card and in the
\* cards left in the deck have in common.
Public(g) == [g EXCEPT !.dealer_hand = <<g.dealer_hand[1]>>, !.deck = {}]

\* The dealer's second card.
Hole(g) == g.dealer_hand[2]

\* Session s has been rendered.
Rendered(s) == shown[s] /= NoShown

\* The last message of session s shows the dealer's full hand.
Revealed(s) == Rendered(s) /\ shown[s].dealer[1] = "Dealer"

\* C31: the dealer's hole card is never disclosed before the session is
\* finished: the message rendered for an unfinished session is a function of
\* the session without the dealer's second card and the undrawn deck, so it is
\* identical for two unfinished sessions that differ only in those, and the
\* full dealer hand is rendered only when finished is true.
C31_HoleCardHidden ==
    /\ \A s \in DOMAIN game : Revealed(s) => game[s].finished
    /\ \A s \in DOMAIN game : Rendered(s) /\ ~game[s].finished =>
            /\ shown[s] = render_state(Public(game[s]), FALSE)
            /\ shown[s].dealer[3][2] = <<"?", "?">>
    /\ \A s \in DOMAIN game : \A t \in DOMAIN game :
            /\ Rendered(s) /\ ~game[s].finished
            /\ Rendered(t) /\ ~game[t].finished
            /\ Public(game[s]) = Public(game[t])
            => shown[s] = shown[t]

\* Two unfinished sessions, split and hit alike, that differ in the dealer's
\* second card and show the same message.
C31_Witness ==
    /\ {1, 2} \subseteq DOMAIN game
    /\ ~game[1].finished /\ ~game[2].finished
    /\ Rendered(1) /\ Rendered(2)
    /\ Hole(game[1]) /= Hole(game[2])
    /\ Public(game[1]) = Public(game[2])
    /\ Len(game[1].player_hands) = 2
    /\ Len(game[1].player_hands[1]) = 3
    /\ shown[1] = shown[2]

\* Two sessions that differ in the dealer's second card, one unfinished and
\* showing one dealer card, the other finished and showing the dealer's hand.
C31_WitnessRevealed ==
    /\ {1, 2} \subseteq DOMAIN game
    /\ ~game[1].finished /\ Rendered(1) /\ ~Revealed(1)
    /\ game[2].finished /\ Revealed(2)
    /\ Hole(game[1]) /= Hole(game[2])
    /\ _fmt_card(Hole(game[2])) \in Range(shown[2].dealer[3])

=============================================================================
